---- MODULE Spec2Model ----
(***************************************************************************)
(* Model of the blocklist build worker (rust-worker).                      *)
(*                                                                         *)
(* Part 1: the job claim and liveness protocol.  The shared "jobs"         *)
(* collection, the JobRepository operations on it (db/job.rs), the worker  *)
(* main loop, its heartbeat task and its shutdown path (worker.rs), and    *)
(* the sequence of job-repository calls made by process_job                *)
(* (processor.rs).                                                         *)
(***************************************************************************)
EXTENDS Naturals, Integers, FiniteSets, Sequences, TLC

(***************************************************************************)
(* Bounds of the model.                                                    *)
(***************************************************************************)
\* heartbeat_at, the one instant the repository can write twice into the same
\* field, is recorded by its age: the milliseconds (BSON datetime units)
\* elapsed since it was read from the clock, saturating at MaxAge.  The code
\* compares instants only for equality (a $set of the value the field
\* already has), which ages preserve.
MaxAge == 1

\* Utc::now(): the instant of age 0.
Now == 0

\* claimed_at, started_at and completed_at are written and never read or
\* compared: the model records that they hold an instant, not which one.
Instant == "instant"

Workers == {"w1", "w2"}
Jobs == {"j1", "j2", "j3"}

\* BSON null in the worker_id field; Option::None for job ids held locally.
NoWorker == "null"
NoJob == "none"

\* Option<BsonDateTime>: <<>> is null / None, <<t>> is Some(t).
Null == << >>
Some(t) == << t >>

JobStatus == {"queued", "processing", "completed", "failed", "skipped"}
Terminal == {"completed", "failed", "skipped"}
JobStage == {"queue", "downloading", "whitelist", "generation", "completed"}

\* Sort keys of the queue; fixed at creation by the producer of the jobs.
priority == [j \in Jobs |-> 5]
created_at == [j \in Jobs |-> IF j = "j1" THEN 0 ELSE 1]

\* The tenants: named users and the system tenant of the default lists.
Default == "__default__"
Tenants == {"alice", "bob", Default}

\* Job.username: the tenant a job builds for.
username == [j \in Jobs |-> IF j = "j2" THEN "bob" ELSE "alice"]

\* The most sources a configuration of the model lists.
MaxSources == 2

VARIABLES
    jobs,         \* the jobs collection: job id -> document
    pc,           \* position of each worker's main loop (Worker::run)
    job,          \* the `job` binding of the current loop iteration
    current_job,  \* Worker.current_job (mutex guarded cell)
    shutdown,     \* Worker.shutdown (AtomicBool set by the signal handler)
    hbAlive,      \* the heartbeat task is still running
    op,           \* the repository call made by the latest step (observer)
    hbLost,       \* heartbeat returned false for the job of this iteration
    hist,         \* per job: claimed / started since it was last queued
    failErr,      \* the follow-up fail write of this iteration returned Err
    perr,         \* the error process_job returned in this iteration
    users,        \* tenant records and the system-config record
    cache,        \* url hashes that have a valid cache entry
    outputs,      \* per tenant: the files of its output directory
    run,          \* per worker: the local bindings of process_job
    content,      \* a blocklist configuration text
    edited,       \* the same text after cosmetic edits
    wl,           \* a whitelist text, its WhitelistManager and its verdicts
    store,        \* the source cache: metadata documents and large objects
    batch,        \* one batch of Downloader::download_sources
    ex,           \* a line handed to the extractor and what it extracted
    lookup,       \* a find_user_by_fingerprint call and its answer
    gen,          \* the category map handed to generation_stage and what it emitted
    parsed        \* a text handed to parse_config and what it returned

\* the tenant store, the source cache, the output directories and the
\* configuration texts: left alone by the claim and liveness protocol
libVars == << wl, store, batch, ex, lookup, gen, parsed >>
dataVars == << users, cache, outputs, run, content, edited, libVars >>

vars == << jobs, pc, job, current_job, shutdown, hbAlive, op, hbLost,
           hist, failErr, perr, dataVars >>

(***************************************************************************)
(* The Job document (db/job.rs, struct Job), restricted to the fields the  *)
(* repository operations read or write.                                    *)
(***************************************************************************)
\* JobResult (db/progress.rs): the result written with a terminal status.
\* Of the struct the model keeps sources_processed, sources_failed, errors
\* and skip_reason, and the tenant a copied result names as its origin.
NoResult == [ kind |-> "none" ]
JobResult_success(sources_processed, sources_failed) ==
    [ sources_processed |-> sources_processed,
      sources_failed |-> sources_failed,
      errors |-> << >>, skip_reason |-> Null, copied_from |-> Null ]
JobResult_failure(errors) ==
    [ sources_processed |-> 0, sources_failed |-> 0,
      errors |-> errors, skip_reason |-> Null, copied_from |-> Null ]
JobResult_skipped(reason) ==
    [ sources_processed |-> 0, sources_failed |-> 0,
      errors |-> << >>, skip_reason |-> Some(reason), copied_from |-> Null ]
JobResult_copied_from_user(source_username, processed, failed) ==
    [ sources_processed |-> processed,
      sources_failed |-> failed,
      errors |-> << >>, skip_reason |-> Null,
      copied_from |-> Some(source_username) ]

\* the reason process_job passes to skip (processor.rs 263)
NoChanges == "No changes detected since last build. All sources are cached and configuration unchanged."

NewJob(j) ==
    [ status |-> "queued", worker_id |-> NoWorker, claimed_at |-> Null,
      heartbeat_at |-> Null, started_at |-> Null, completed_at |-> Null,
      progress |-> "queue", result |-> NoResult,
      priority |-> priority[j], created_at |-> created_at[j],
      username |-> username[j] ]

\* The text of an error: the anyhow error of a failed database round trip,
\* of the whitelist load and of the generator, and the messages process_job
\* passes to fail itself.
NoError == "none"
DbError == "database error"
WhitelistError == "whitelist load error"
GeneratorError == "generator error"

Internal == [ op |-> "internal", by |-> "none", job |-> NoJob, ret |-> "none" ]
Call(o, w, j, r) == [ op |-> o, by |-> w, job |-> j, ret |-> r ]

(***************************************************************************)
(* JobRepository (db/job.rs).  Every operation is one atomic command of    *)
(* the document store: it maps the collection to the collection after the  *)
(* command.  `w` is the repository's worker_id, `t` the value of Utc::now. *)
(***************************************************************************)

\* claim_next with an empty filter document: any job matches
ClaimFilterNoFilter(jb) == DOMAIN jb

\* claim_next that also takes over jobs already in processing
ClaimFilterStale(jb) ==
    { j \in DOMAIN jb : jb[j].status \in {"queued", "processing"} }

\* filter of claim_next: { status: "queued", worker_id: null }
ClaimFilter(jb) ==
    { j \in DOMAIN jb : jb[j].status = "queued" /\ jb[j].worker_id = NoWorker }

\* a sort of claim_next with the keys in the other order:
\* { created_at: 1, priority: 1 }
SortsBeforeCreatedFirst(d, e) ==
    \/ d.created_at < e.created_at
    \/ d.created_at = e.created_at /\ d.priority <= e.priority

\* sort of claim_next: { priority: 1, created_at: 1 }
SortsBefore(d, e) ==
    \/ d.priority < e.priority
    \/ d.priority = e.priority /\ d.created_at <= e.created_at

\* the document find_one_and_update selects (NoJob when nothing matches)
ClaimPick(jb) ==
    IF ClaimFilter(jb) = {} THEN NoJob
    ELSE CHOOSE j \in ClaimFilter(jb) :
             \A k \in ClaimFilter(jb) : SortsBefore(jb[j], jb[k])

\* $set of claim_next applied to the selected document
claim_next(jb, w, t) ==
    IF ClaimPick(jb) = NoJob THEN jb
    ELSE [jb EXCEPT ![ClaimPick(jb)] =
             [@ EXCEPT !.status = "processing", !.worker_id = w,
                       !.claimed_at = Some(Instant), !.heartbeat_at = Some(t),
                       !.started_at = Some(Instant)]]

\* update_progress: filter { _id }, $set { progress }
update_progress(jb, j, stage) ==
    [jb EXCEPT ![j] = [@ EXCEPT !.progress = stage]]

\* filter of heartbeat:
\* { job_id, worker_id: self.worker_id, status: "processing" }
HeartbeatFilter(jb, j, w) ==
    jb[j].worker_id = w /\ jb[j].status = "processing"

\* heartbeat: $set { heartbeat_at: now } on the matched document
heartbeat(jb, j, w, t) ==
    IF HeartbeatFilter(jb, j, w)
    THEN [jb EXCEPT ![j] = [@ EXCEPT !.heartbeat_at = Some(t)]]
    ELSE jb

\* UpdateResult.modified_count of an update_one: the number of documents the
\* command changed.  A matched document whose $set leaves every field at
\* the value it already has is counted in matched_count, not here.
modified_count(jb, jbAfter) ==
    Cardinality({ j \in DOMAIN jb : jbAfter[j] # jb[j] })

\* Ok(result.modified_count > 0) of heartbeat
heartbeat_result(jb, j, w, t) ==
    modified_count(jb, heartbeat(jb, j, w, t)) > 0

\* complete / fail / skip: filter { _id }, $set { status, completed_at, result }
complete(jb, j, res) ==
    [jb EXCEPT ![j] = [@ EXCEPT !.status = "completed",
                                !.completed_at = Some(Instant), !.result = res]]

\* a fail that builds its result without the error strings
FailDropsErrors(jb, j, errors) ==
    [jb EXCEPT ![j] = [@ EXCEPT !.status = "failed",
                                !.completed_at = Some(Instant),
                                !.result = JobResult_failure(<< >>)]]

fail(jb, j, errors) ==
    [jb EXCEPT ![j] = [@ EXCEPT !.status = "failed",
                                !.completed_at = Some(Instant),
                                !.result = JobResult_failure(errors)]]

\* a skip whose filter is the tenant of the job, not its _id
SkipAllOfTenant(jb, j, reason) ==
    [k \in DOMAIN jb |->
       IF jb[k].username = jb[j].username
       THEN [jb[k] EXCEPT !.status = "skipped",
                          !.completed_at = Some(Instant),
                          !.result = JobResult_skipped(reason)]
       ELSE jb[k]]

skip(jb, j, reason) ==
    [jb EXCEPT ![j] = [@ EXCEPT !.status = "skipped",
                                !.completed_at = Some(Instant),
                                !.result = JobResult_skipped(reason)]]

\* a release $set that leaves status out
RequeuedKeepsStatus(d) ==
    [d EXCEPT !.worker_id = NoWorker,
              !.claimed_at = Null, !.heartbeat_at = Null, !.started_at = Null]

\* a release $set that leaves worker_id out
RequeuedKeepsWorker(d) ==
    [d EXCEPT !.status = "queued",
              !.claimed_at = Null, !.heartbeat_at = Null, !.started_at = Null]

\* a release $set that leaves heartbeat_at out
RequeuedKeepsHeartbeat(d) ==
    [d EXCEPT !.status = "queued", !.worker_id = NoWorker,
              !.claimed_at = Null, !.started_at = Null]

\* $set of release and release_all
Requeued(d) ==
    [d EXCEPT !.status = "queued", !.worker_id = NoWorker,
              !.claimed_at = Null, !.heartbeat_at = Null, !.started_at = Null]

\* filter of release:
\* { job_id, worker_id: self.worker_id, status: "processing" }
ReleaseFilter(jb, j, w) ==
    jb[j].worker_id = w /\ jb[j].status = "processing"

\* release: update_one on ReleaseFilter
release(jb, j, w) ==
    IF ReleaseFilter(jb, j, w) THEN [jb EXCEPT ![j] = Requeued(@)] ELSE jb

\* a release_all filter without the status condition
ReleaseAllFilterAnyStatus(jb, w) ==
    { j \in DOMAIN jb : jb[j].worker_id = w }

\* a release_all filter without the worker_id condition
ReleaseAllFilterAnyWorker(jb, w) ==
    { j \in DOMAIN jb : jb[j].status = "processing" }

\* a release_all filter on the wrong status
ReleaseAllFilterQueued(jb, w) ==
    { j \in DOMAIN jb : jb[j].worker_id = w /\ jb[j].status = "queued" }

\* filter of release_all: { worker_id: self.worker_id, status: "processing" }
ReleaseAllFilter(jb, w) ==
    { j \in DOMAIN jb : jb[j].worker_id = w /\ jb[j].status = "processing" }

\* release_all: update_many on ReleaseAllFilter
release_all(jb, w) ==
    [j \in DOMAIN jb |-> IF j \in ReleaseAllFilter(jb, w) THEN Requeued(jb[j])
                    ELSE jb[j]]

(***************************************************************************)
(* Initial states.  A deployment is a set of started worker processes and  *)
(* the set of job documents in the collection, all created elsewhere in    *)
(* state queued.  A worker that is not part of the deployment stays "off". *)
(***************************************************************************)
Deployments ==
    { [workers |-> {"w1", "w2"}, jobs |-> {"j1"}],
      [workers |-> {"w1"}, jobs |-> {"j1", "j2"}] }

\* No tenant, no cache entry, no output, no configuration text.
IdleLib ==
    /\ wl = << >>
    /\ store = << >>
    /\ batch = << >>
    /\ ex = << >>
    /\ lookup = << >>
    /\ gen = << >>
    /\ parsed = << >>

IdleData ==
    /\ IdleLib
    /\ users = << >>
    /\ cache = {}
    /\ outputs = << >>
    /\ run = << >>
    /\ content = << >>
    /\ edited = << >>

InitDeployment(ws, js) ==
    /\ jobs = [j \in js |-> NewJob(j)]
    /\ pc = [w \in Workers |-> IF w \in ws THEN "check" ELSE "off"]
    /\ job = [w \in Workers |-> NoJob]
    /\ current_job = [w \in Workers |-> NoJob]
    /\ shutdown = [w \in Workers |-> FALSE]
    /\ hbAlive = [w \in Workers |-> w \in ws]
    /\ op = Internal
    /\ hbLost = [w \in Workers |-> FALSE]
    /\ hist = [j \in js |-> "queued"]
    /\ failErr = [w \in Workers |-> FALSE]
    /\ perr = [w \in Workers |-> NoError]
    /\ IdleData

Init == \E d \in Deployments : InitDeployment(d.workers, d.jobs)

\* Observer of claims and releases: a job returns to "queued" whenever a
\* command puts its document back to status queued.
HistAfter(jbAfter) ==
    [j \in DOMAIN jobs |->
        IF jbAfter[j].status = "queued" /\ jobs[j].status # "queued"
        THEN "queued" ELSE hist[j]]

(***************************************************************************)
(* Environment.                                                            *)
(***************************************************************************)
\* One millisecond passes: every recorded heartbeat grows older.
Older(ts) == IF ts = Null THEN Null
             ELSE Some(IF ts[1] < MaxAge THEN ts[1] + 1 ELSE MaxAge)

Aged(d) == [d EXCEPT !.heartbeat_at = Older(@)]

Tick ==
    /\ jobs' = [j \in DOMAIN jobs |-> Aged(jobs[j])]
    /\ jobs' # jobs
    /\ op' = Internal
    /\ UNCHANGED << pc, job, current_job, shutdown, hbAlive, hbLost, hist,
                    failErr >>
    /\ UNCHANGED << perr, dataVars >>

\* main.rs: the ctrlc handler stores true into the shutdown flag.
Shutdown(w) ==
    /\ pc[w] # "off"
    /\ ~shutdown[w]
    /\ shutdown' = [shutdown EXCEPT ![w] = TRUE]
    /\ op' = Internal
    /\ UNCHANGED << jobs, pc, job, current_job, hbAlive, hbLost, hist,
                    failErr >>
    /\ UNCHANGED << perr, dataVars >>

\* The recovery process: force-releases a processing job whose heartbeat
\* has aged, by the rule of release.
ForceRelease(j) ==
    /\ j \in DOMAIN jobs
    /\ jobs[j].status = "processing"
    /\ jobs[j].heartbeat_at # Some(Now)
    /\ jobs' = [jobs EXCEPT ![j] = Requeued(@)]
    /\ hist' = [hist EXCEPT ![j] = "queued"]
    /\ op' = Call("force_release", "recovery", j, "ok")
    /\ UNCHANGED << pc, job, current_job, shutdown, hbAlive, hbLost,
                    failErr >>
    /\ UNCHANGED << perr, dataVars >>

(***************************************************************************)
(* Worker::run, the main loop (worker.rs 43-102).                          *)
(***************************************************************************)
\* if self.shutdown.load() { break }  followed by heartbeat_handle.abort()
CheckShutdown(w) ==
    /\ pc[w] = "check"
    /\ IF shutdown[w]
       THEN /\ pc' = [pc EXCEPT ![w] = "release"]
            /\ hbAlive' = [hbAlive EXCEPT ![w] = FALSE]
       ELSE /\ pc' = [pc EXCEPT ![w] = "claim"]
            /\ UNCHANGED hbAlive
    /\ op' = Internal
    /\ UNCHANGED << jobs, job, current_job, shutdown, hbLost, hist,
                    failErr >>
    /\ UNCHANGED << perr, dataVars >>

\* match job_repo.claim_next().await
ClaimJob(w) ==
    /\ pc[w] = "claim"
    /\ \E dbOk \in BOOLEAN :
         IF ~dbOk
         THEN \* Err(e): sleep 5 s and poll again
              /\ op' = Call("claim", w, NoJob, "err")
              /\ pc' = [pc EXCEPT ![w] = "check"]
              /\ UNCHANGED << jobs, job, hist, failErr >>
         ELSE IF ClaimPick(jobs) = NoJob
         THEN \* Ok(None): sleep 2 s and poll again
              /\ op' = Call("claim", w, NoJob, "none")
              /\ pc' = [pc EXCEPT ![w] = "check"]
              /\ UNCHANGED << jobs, job, hist, failErr >>
         ELSE \* Ok(Some(job))
              /\ jobs' = claim_next(jobs, w, Now)
              /\ op' = Call("claim", w, ClaimPick(jobs), "some")
              /\ job' = [job EXCEPT ![w] = ClaimPick(jobs)]
              /\ hist' = [hist EXCEPT ![ClaimPick(jobs)] = "claimed"]
              /\ failErr' = [failErr EXCEPT ![w] = FALSE]
              /\ pc' = [pc EXCEPT ![w] = "store"]
    /\ UNCHANGED << current_job, shutdown, hbAlive, hbLost >>
    /\ UNCHANGED << perr, dataVars >>

\* *current = Some(job.job_id.clone())
StoreCurrent(w) ==
    /\ pc[w] = "store"
    /\ current_job' = [current_job EXCEPT ![w] = job[w]]
    /\ pc' = [pc EXCEPT ![w] = "construct"]
    /\ op' = Internal
    /\ UNCHANGED << jobs, job, shutdown, hbAlive, hbLost, hist, failErr >>
    /\ UNCHANGED << perr, dataVars >>

\* JobProcessor::new(..): Ok(p) goes on to process_job, Err(e) is logged and
\* the loop continues with the next iteration.
Construct(w) ==
    /\ pc[w] = "construct"
    /\ \E ok \in BOOLEAN :
         IF ok
         THEN /\ pc' = [pc EXCEPT ![w] = "pj_load"]
              /\ hist' = [hist EXCEPT ![job[w]] = "started"]
              /\ UNCHANGED job
         ELSE /\ pc' = [pc EXCEPT ![w] = "check"]
              /\ job' = [job EXCEPT ![w] = NoJob]
              /\ UNCHANGED hist
    /\ op' = Internal
    /\ UNCHANGED << jobs, current_job, shutdown, hbAlive, hbLost, failErr >>
    /\ UNCHANGED << perr, dataVars >>

(***************************************************************************)
(* JobProcessor::process_job (processor.rs 210-623): the job-repository    *)
(* calls it makes, in order.  Every call is followed by `?`: an Err ends   *)
(* process_job with Err, which Worker::run answers by a fail write.        *)
(***************************************************************************)
\* a repository call whose Err is logged and ignored
RepoWriteLogged(w, name, after, next) ==
    /\ \E dbOk \in BOOLEAN :
         /\ jobs' = IF dbOk THEN after ELSE jobs
         /\ op' = Call(name, w, job[w], IF dbOk THEN "ok" ELSE "err")
         /\ pc' = [pc EXCEPT ![w] = next]
         /\ UNCHANGED perr
    /\ UNCHANGED << job, current_job, shutdown, hbAlive, hbLost, hist,
                    failErr >>

\* One `self.job_repo.<name>(..).await?` of worker w on its job: on Ok the
\* collection becomes `after` and control goes to `next`.
RepoWrite(w, name, after, next) ==
    /\ \E dbOk \in BOOLEAN :
         IF dbOk
         THEN /\ jobs' = after
              /\ op' = Call(name, w, job[w], "ok")
              /\ pc' = [pc EXCEPT ![w] = next]
              /\ UNCHANGED perr
         ELSE /\ jobs' = jobs
              /\ op' = Call(name, w, job[w], "err")
              /\ pc' = [pc EXCEPT ![w] = "mark_failed"]
              /\ perr' = [perr EXCEPT ![w] = DbError]
    /\ UNCHANGED << job, current_job, shutdown, hbAlive, hbLost, hist,
                    failErr >>

\* A step of process_job that makes no job-repository call.
Goto(w, next) ==
    /\ pc' = [pc EXCEPT ![w] = next]
    /\ op' = Internal
    /\ UNCHANGED << jobs, job, current_job, shutdown, hbAlive, hbLost,
                    hist, failErr, perr >>

\* A step of process_job that is not a job-repository call ends with `?`
\* on an Err: process_job returns the error e.
Raise(w, e) ==
    /\ pc' = [pc EXCEPT ![w] = "mark_failed"]
    /\ perr' = [perr EXCEPT ![w] = e]
    /\ op' = Internal
    /\ UNCHANGED << jobs, job, current_job, shutdown, hbAlive, hbLost,
                    hist, failErr >>

\* Steps 0-3 (217-429): config load, empty source list, self-match skip,
\* cross-tenant copy; otherwise the normal build.
PJ_Load(w) ==
    /\ pc[w] = "pj_load"
    /\ \E path \in {"no_config", "no_sources", "skip", "copy", "build"} :
         CASE path = "no_config" ->
                  RepoWrite(w, "fail",
                            fail(jobs, job[w], << "Failed to load config" >>),
                            "clear")
           [] path = "no_sources" ->
                  RepoWrite(w, "fail",
                            fail(jobs, job[w],
                                 << "No valid sources in config" >>),
                            "clear")
           [] path = "skip" ->
                  RepoWrite(w, "skip", skip(jobs, job[w], NoChanges), "clear")
           [] path = "copy" -> Goto(w, "pj_copy_progress")
           [] path = "build" -> Goto(w, "pj_init_progress")
    /\ UNCHANGED dataVars

\* 342-352: progress pre-set to the terminal stage
PJ_CopyProgress(w) ==
    /\ pc[w] = "pj_copy_progress"
    /\ RepoWrite(w, "update_progress",
                 update_progress(jobs, job[w], "completed"), "pj_copy_complete")
    /\ UNCHANGED dataVars

\* 355: complete with the copied result
PJ_CopyComplete(w) ==
    /\ pc[w] = "pj_copy_complete"
    /\ \E matched \in Tenants \ {jobs[job[w]].username},
          n \in 0..MaxSources, failed \in 0..MaxSources :
         /\ failed <= n
         /\ n > 0 => failed < n
         /\ RepoWrite(w, "complete",
                      complete(jobs, job[w],
                               JobResult_copied_from_user(matched, n - failed,
                                                          failed)),
                      "clear")
    /\ UNCHANGED dataVars

\* 431-460: JobProgress::downloading, first progress write
PJ_InitProgress(w) ==
    /\ pc[w] = "pj_init_progress"
    /\ RepoWrite(w, "update_progress",
                 update_progress(jobs, job[w], "downloading"), "pj_download")
    /\ UNCHANGED dataVars

\* download_stage (626-663): progress write after the batch
PJ_DownloadStage(w) ==
    /\ pc[w] = "pj_download"
    /\ RepoWrite(w, "update_progress",
                 update_progress(jobs, job[w], "downloading"), "pj_downloaded")
    /\ UNCHANGED dataVars

\* 467-499: all downloads failed, or no domains extracted: fail; else go on
PJ_CheckExtracted(w) ==
    /\ pc[w] = "pj_downloaded"
    /\ \E found \in {"All source downloads failed", "No domains extracted",
                      "domains"} :
         IF found # "domains"
         THEN RepoWrite(w, "fail", fail(jobs, job[w], << found >>), "clear")
         ELSE Goto(w, "pj_whitelist")
    /\ UNCHANGED dataVars

\* whitelist_stage (755-766): to_whitelist, progress write
PJ_WhitelistStart(w) ==
    /\ pc[w] = "pj_whitelist"
    /\ RepoWrite(w, "update_progress",
                 update_progress(jobs, job[w], "whitelist"), "pj_filter")
    /\ UNCHANGED dataVars

\* whitelist_stage (768-795): get_whitelist(..)?, filter, progress write
PJ_WhitelistFilter(w) ==
    /\ pc[w] = "pj_filter"
    /\ \E loaded \in BOOLEAN :
         IF loaded
         THEN RepoWrite(w, "update_progress",
                        update_progress(jobs, job[w], "whitelist"),
                        "pj_generation")
         ELSE Raise(w, WhitelistError)
    /\ UNCHANGED dataVars

\* a generation stage that persists the downloading stage again
PJ_GenerationRestart(w) ==
    /\ pc[w] = "pj_generation"
    /\ RepoWrite(w, "update_progress",
                 update_progress(jobs, job[w], "downloading"), "pj_generate")
    /\ UNCHANGED dataVars

\* generation_stage (806-811): to_generation, progress write
PJ_GenerationStart(w) ==
    /\ pc[w] = "pj_generation"
    /\ RepoWrite(w, "update_progress",
                 update_progress(jobs, job[w], "generation"), "pj_generate")
    /\ UNCHANGED dataVars

\* generation_stage (813-860): generator calls (`?`), to_completed, write
PJ_Generate(w) ==
    /\ pc[w] = "pj_generate"
    /\ \E generated \in BOOLEAN :
         IF generated
         THEN RepoWrite(w, "update_progress",
                        update_progress(jobs, job[w], "completed"),
                        "pj_complete")
         ELSE Raise(w, GeneratorError)
    /\ UNCHANGED dataVars

\* 545: complete with the success result
PJ_Complete(w) ==
    /\ pc[w] = "pj_complete"
    /\ \E n \in 1..MaxSources, failed \in 0..MaxSources :
         /\ failed < n
         /\ RepoWrite(w, "complete",
                      complete(jobs, job[w],
                               JobResult_success(n - failed, failed)),
                      "clear")
    /\ UNCHANGED dataVars

(***************************************************************************)
(* Worker::run after process_job (worker.rs 74-90).                        *)
(***************************************************************************)
\* if let Err(e) = process_job: job_repo.fail(..); its own Err is logged
MarkFailed(w) ==
    /\ pc[w] = "mark_failed"
    /\ \E dbOk \in BOOLEAN :
         IF dbOk
         THEN /\ jobs' = fail(jobs, job[w], << perr[w] >>)
              /\ op' = Call("fail", w, job[w], "ok")
              /\ UNCHANGED failErr
         ELSE /\ jobs' = jobs
              /\ op' = Call("fail", w, job[w], "err")
              /\ failErr' = [failErr EXCEPT ![w] = TRUE]
    /\ pc' = [pc EXCEPT ![w] = "clear"]
    /\ UNCHANGED << job, current_job, shutdown, hbAlive, hbLost, hist >>
    /\ UNCHANGED << perr, dataVars >>

\* *current = None, end of the iteration
ClearCurrent(w) ==
    /\ pc[w] = "clear"
    /\ current_job' = [current_job EXCEPT ![w] = NoJob]
    /\ job' = [job EXCEPT ![w] = NoJob]
    /\ pc' = [pc EXCEPT ![w] = "check"]
    /\ hbLost' = [hbLost EXCEPT ![w] = FALSE]
    /\ failErr' = [failErr EXCEPT ![w] = FALSE]
    /\ op' = Internal
    /\ UNCHANGED << jobs, shutdown, hbAlive, hist >>
    /\ perr' = [perr EXCEPT ![w] = NoError]
    /\ UNCHANGED dataVars

(***************************************************************************)
(* Worker::release_jobs (worker.rs 149-171), run after the loop.           *)
(***************************************************************************)
\* if let Some(job_id) = current_job: job_repo.release(&job_id); every
\* outcome is only logged
ReleaseCurrent(w) ==
    /\ pc[w] = "release"
    /\ IF current_job[w] = NoJob
       THEN /\ op' = Internal
            /\ UNCHANGED << jobs, hist >>
       ELSE \E dbOk \in BOOLEAN :
              IF dbOk
              THEN /\ jobs' = release(jobs, current_job[w], w)
                   /\ op' = Call("release", w, current_job[w],
                                 IF modified_count(jobs, jobs') > 0
                                 THEN "true" ELSE "false")
                   /\ hist' = HistAfter(jobs')
              ELSE /\ op' = Call("release", w, current_job[w], "err")
                   /\ UNCHANGED << jobs, hist >>
    /\ pc' = [pc EXCEPT ![w] = "release_all"]
    /\ UNCHANGED << job, current_job, shutdown, hbAlive, hbLost, failErr >>
    /\ UNCHANGED << perr, dataVars >>

\* let released = job_repo.release_all().await?;  then run returns Ok(())
ReleaseAll(w) ==
    /\ pc[w] = "release_all"
    /\ \E dbOk \in BOOLEAN :
         IF dbOk
         THEN /\ jobs' = release_all(jobs, w)
              /\ op' = Call("release_all", w, NoJob, "ok")
              /\ hist' = HistAfter(jobs')
              /\ pc' = [pc EXCEPT ![w] = "done"]
         ELSE /\ op' = Call("release_all", w, NoJob, "err")
              /\ pc' = [pc EXCEPT ![w] = "error"]
              /\ UNCHANGED << jobs, hist >>
    /\ UNCHANGED << job, current_job, shutdown, hbAlive, hbLost, failErr >>
    /\ UNCHANGED << perr, dataVars >>

(***************************************************************************)
(* The heartbeat task (worker.rs 113-146).                                 *)
(***************************************************************************)
\* a tick that finds the shutdown flag set: break
HeartbeatExit(w) ==
    /\ hbAlive[w]
    /\ shutdown[w]
    /\ hbAlive' = [hbAlive EXCEPT ![w] = FALSE]
    /\ op' = Internal
    /\ UNCHANGED << jobs, pc, job, current_job, shutdown, hbLost, hist,
                    failErr >>
    /\ UNCHANGED << perr, dataVars >>

\* a tick that sends the heartbeat whatever the shutdown flag says
HeartbeatTickAnyway(w) ==
    /\ hbAlive[w]
    /\ current_job[w] # NoJob
    /\ \E dbOk \in BOOLEAN :
         IF dbOk
         THEN /\ jobs' = heartbeat(jobs, current_job[w], w, Now)
              /\ IF heartbeat_result(jobs, current_job[w], w, Now)
                 THEN /\ op' = Call("heartbeat", w, current_job[w], "true")
                      /\ UNCHANGED hbLost
                 ELSE /\ op' = Call("heartbeat", w, current_job[w], "false")
                      /\ hbLost' = [hbLost EXCEPT ![w] = TRUE]
         ELSE /\ op' = Call("heartbeat", w, current_job[w], "err")
              /\ UNCHANGED << jobs, hbLost >>
    /\ UNCHANGED << pc, job, current_job, shutdown, hbAlive, hist, failErr >>
    /\ UNCHANGED << perr, dataVars >>

\* a tick with a current job: job_repo.heartbeat(&job_id); true, false and
\* Err are only logged
HeartbeatTick(w) ==
    /\ hbAlive[w]
    /\ ~shutdown[w]
    /\ current_job[w] # NoJob
    /\ \E dbOk \in BOOLEAN :
         IF dbOk
         THEN /\ jobs' = heartbeat(jobs, current_job[w], w, Now)
              /\ IF heartbeat_result(jobs, current_job[w], w, Now)
                 THEN /\ op' = Call("heartbeat", w, current_job[w], "true")
                      /\ UNCHANGED hbLost
                 ELSE /\ op' = Call("heartbeat", w, current_job[w], "false")
                      /\ hbLost' = [hbLost EXCEPT ![w] = TRUE]
         ELSE /\ op' = Call("heartbeat", w, current_job[w], "err")
              /\ UNCHANGED << jobs, hbLost >>
    /\ UNCHANGED << pc, job, current_job, shutdown, hbAlive, hist, failErr >>
    /\ UNCHANGED << perr, dataVars >>

(***************************************************************************)
(* The system: the workers, their heartbeat tasks and the environment.     *)
(***************************************************************************)
\* Worker::run: the steps of the main task
MainLoop(w) ==
    \/ CheckShutdown(w)
    \/ ClaimJob(w)
    \/ StoreCurrent(w)
    \/ Construct(w)
    \/ PJ_Load(w)
    \/ PJ_CopyProgress(w)
    \/ PJ_CopyComplete(w)
    \/ PJ_InitProgress(w)
    \/ PJ_DownloadStage(w)
    \/ PJ_CheckExtracted(w)
    \/ PJ_WhitelistStart(w)
    \/ PJ_WhitelistFilter(w)
    \/ PJ_GenerationStart(w)
    \/ PJ_Generate(w)
    \/ PJ_Complete(w)
    \/ MarkFailed(w)
    \/ ClearCurrent(w)
    \/ ReleaseCurrent(w)
    \/ ReleaseAll(w)

WorkerStep(w) ==
    \/ Shutdown(w)
    \/ MainLoop(w)
    \/ HeartbeatExit(w)
    \/ HeartbeatTick(w)

Next ==
    \/ Tick
    \/ \E w \in Workers : WorkerStep(w)

Spec == Init /\ [][Next]_vars

TypeOK ==
    /\ DOMAIN jobs \subseteq Jobs
    /\ \A j \in DOMAIN jobs :
         /\ jobs[j].status \in JobStatus
         /\ jobs[j].worker_id \in Workers \cup {NoWorker}
         /\ jobs[j].progress \in JobStage
    /\ \A w \in Workers :
         /\ job[w] \in DOMAIN jobs \cup {NoJob}
         /\ current_job[w] \in DOMAIN jobs \cup {NoJob}

(***************************************************************************)
(* The deployment with a recovery process: one worker, one job, and the    *)
(* recovery process force-releasing the job once its heartbeat has aged.   *)
(***************************************************************************)
InitRecovery == InitDeployment({"w1"}, {"j1"})

NextRecovery ==
    \/ Next
    \/ \E j \in Jobs : ForceRelease(j)

SpecRecovery == InitRecovery /\ [][NextRecovery]_vars

(***************************************************************************)
(* Properties of the claim and liveness protocol.                          *)
(***************************************************************************)
Docs == DOMAIN jobs

\* the step just taken was the repository call `name`, and it reached the
\* database (a failed round trip returns Err and changes nothing)
Called(name) == op'.op = name /\ op'.ret # "err"

\* C1: when workers race for the one claimable job, exactly one claim call
\* returns it and leaves nothing claimable, so every other call returns
\* "no job"; no two workers are handed the same job; a call that returns an
\* error has changed nothing.
C1_SingleWinner ==
    /\ [](\A w1, w2 \in Workers :
            (w1 # w2 /\ job[w1] # NoJob) => job[w1] # job[w2])
    /\ [][ /\ Called("claim") =>
                IF \E j \in Docs : jobs[j].status = "queued"
                                   /\ jobs[j].worker_id = NoWorker
                THEN /\ op'.ret = "some"
                     /\ jobs[op'.job].status = "queued"
                     /\ jobs[op'.job].worker_id = NoWorker
                     /\ jobs'[op'.job].status = "processing"
                     /\ jobs'[op'.job].worker_id = op'.by
                     /\ job'[op'.by] = op'.job
                     /\ \A k \in Docs \ {op'.job} : jobs'[k] = jobs[k]
                ELSE op'.ret = "none" /\ jobs' = jobs
           /\ (op'.op = "claim" /\ op'.ret = "err") => jobs' = jobs
         ]_vars

\* two workers raced for the only job: one holds it, the other got nothing
C1_Witness ==
    \E w1, w2 \in Workers :
      /\ w1 # w2
      /\ Docs = {"j1"}
      /\ pc[w1] = "store" /\ job[w1] = "j1"
      /\ jobs["j1"].worker_id = w1
      /\ op = Call("claim", w2, NoJob, "none")

\* C2: a job that a claim has returned is not returned by any claim again
\* unless it was put back to queued in between, and process_job is started
\* for it at most once between two such releases.
C2_OwnedOnce ==
    [][ /\ (Called("claim") /\ op'.ret = "some") => hist[op'.job] = "queued"
        /\ \A w \in Workers :
             (pc[w] = "construct" /\ pc'[w] = "pj_load")
                 => hist[job[w]] = "claimed"
      ]_vars

\* a job is being processed by one worker while another worker polls
C2_Witness ==
    \E w1, w2 \in Workers :
      /\ w1 # w2
      /\ hist["j1"] = "started"
      /\ pc[w1] = "pj_download" /\ job[w1] = "j1"
      /\ op = Call("claim", w2, NoJob, "none")

\* C3: every job whose status is processing has the id of a worker in
\* worker_id.
C3_ProcessingHasWorker ==
    \A j \in Docs :
      jobs[j].status = "processing" => jobs[j].worker_id \in Workers

\* a job that was released once is processing again under a second claim
C3_Witness ==
    \E j \in Docs, w \in Workers :
      /\ jobs[j].status = "processing" /\ jobs[j].worker_id = w
      /\ jobs[j].progress # "queue"
      /\ pc[w] = "store" /\ job[w] = j

\* C4 as stated: every job whose worker_id is non-null has status processing.
C4_Original ==
    \A j \in Docs :
      jobs[j].worker_id # NoWorker => jobs[j].status = "processing"

\* C4 amended: a job whose worker_id is non-null is processing or terminal,
\* never queued (complete, fail and skip leave worker_id as it is).
C4_WorkerIdNotQueued ==
    \A j \in Docs :
      jobs[j].worker_id # NoWorker
          => jobs[j].status \in {"processing"} \cup Terminal

\* a terminal write has happened on a claimed job
C4_Witness ==
    \E j \in Docs :
      /\ jobs[j].status \in Terminal
      /\ jobs[j].worker_id \in Workers
      /\ op.op \in {"complete", "fail", "skip"} /\ op.ret = "ok" /\ op.job = j

\* C5: a job in a terminal status stays in a terminal status.
C5_TerminalMonotonic ==
    [][ \A j \in Docs :
          jobs[j].status \in Terminal => jobs'[j].status \in Terminal ]_vars

\* the worker that finished a job runs its shutdown sweep over it
C5_Witness ==
    \E j \in Docs, w \in Workers :
      /\ jobs[j].status \in Terminal /\ jobs[j].worker_id = w
      /\ op = Call("release_all", w, NoJob, "ok")

\* C6: claimed_at, heartbeat_at and started_at are non-null exactly when
\* worker_id is non-null, and null exactly when it is null.
C6_StampsWithWorker ==
    \A j \in Docs :
      IF jobs[j].worker_id # NoWorker
      THEN /\ jobs[j].claimed_at # Null
           /\ jobs[j].heartbeat_at # Null
           /\ jobs[j].started_at # Null
      ELSE /\ jobs[j].claimed_at = Null
           /\ jobs[j].heartbeat_at = Null
           /\ jobs[j].started_at = Null

\* a claimed job has just been released
C6_Witness ==
    \E j \in Docs, w \in Workers :
      /\ op = Call("release", w, j, "true")
      /\ jobs[j].worker_id = NoWorker
      /\ jobs[j].status = "queued"

\* the step just taken was a successful write of worker w to job j by
\* update_progress, complete, fail or skip
WroteJob(w, j) ==
    /\ op'.op \in {"update_progress", "complete", "fail", "skip"}
    /\ op'.ret = "ok"
    /\ op'.by = w
    /\ op'.job = j

\* C7: once heartbeat has returned false to a worker for the job it is
\* working on, and the worker does not own that job in processing, the
\* worker writes nothing more to the job.
C7_AbortsAfterFalseHeartbeat ==
    [][ \A w \in Workers :
          ( /\ hbLost[w]
            /\ job[w] # NoJob
            /\ ~(jobs[job[w]].worker_id = w
                 /\ jobs[job[w]].status = "processing") )
          => ~WroteJob(w, job[w]) ]_vars

\* the document with only heartbeat_at replaced
OnlyHeartbeatChanged(before, after) ==
    after = [before EXCEPT !.heartbeat_at = after.heartbeat_at]

\* C8: heartbeat returns true exactly when the job has this worker's id and
\* status processing; a true result changes nothing but heartbeat_at of that
\* job, a false result changes nothing at all.
C8_HeartbeatResult ==
    [][ Called("heartbeat") =>
          /\ op'.ret = "true"
                <=> ( /\ jobs[op'.job].worker_id = op'.by
                      /\ jobs[op'.job].status = "processing" )
          /\ op'.ret = "true" =>
                /\ OnlyHeartbeatChanged(jobs[op'.job], jobs'[op'.job])
                /\ \A k \in Docs \ {op'.job} : jobs'[k] = jobs[k]
          /\ op'.ret = "false" => jobs' = jobs
      ]_vars

\* the document after a release
Released(d) ==
    [d EXCEPT !.status = "queued", !.worker_id = NoWorker,
              !.claimed_at = Null, !.heartbeat_at = Null, !.started_at = Null]

\* C9: release(J) by W changes J only if J has worker_id W and status
\* processing, release_all by W changes exactly the jobs with worker_id W
\* and status processing; a changed job becomes queued with worker_id and
\* the three stamps null, every other job stays as it is.
C9_ReleaseFrame ==
    [][ /\ Called("release") =>
              \A k \in Docs :
                jobs'[k] = IF /\ k = op'.job
                              /\ jobs[k].worker_id = op'.by
                              /\ jobs[k].status = "processing"
                           THEN Released(jobs[k]) ELSE jobs[k]
        /\ Called("release_all") =>
              \A k \in Docs :
                jobs'[k] = IF /\ jobs[k].worker_id = op'.by
                              /\ jobs[k].status = "processing"
                           THEN Released(jobs[k]) ELSE jobs[k]
      ]_vars

\* a worker has swept its jobs while another worker's job is processing
C9_Witness ==
    \E w1, w2 \in Workers, j \in Docs :
      /\ w1 # w2
      /\ op = Call("release_all", w1, NoJob, "ok")
      /\ jobs[j].status = "processing"
      /\ jobs[j].worker_id = w2

NoneProcessingFor(w) ==
    \A j \in Docs :
      ~(jobs[j].status = "processing" /\ jobs[j].worker_id = w)

InitLive == InitDeployment({"w1"}, {"j1", "j2"})

SpecLive ==
    InitLive /\ [][Next]_vars /\ \A w \in Workers : WF_vars(MainLoop(w))

(***************************************************************************)
(* claim_next as a function of the collection: any collection of queued,   *)
(* processing and finished jobs with any sort keys, and claim calls on it. *)
(***************************************************************************)
MaxPriority == 2
MaxCreated == 2

\* a document as claim_next, complete and the producer of jobs leave it
ClaimDocs ==
    { [NewJob("j1") EXCEPT !.priority = p, !.created_at = c] :
          p \in 1..MaxPriority, c \in 0..MaxCreated }
    \cup
    { [NewJob("j1") EXCEPT !.priority = p, !.created_at = c,
                           !.status = st, !.worker_id = "w2",
                           !.claimed_at = Some(Instant),
                           !.heartbeat_at = Some(MaxAge),
                           !.started_at = Some(Instant)] :
          p \in 1..MaxPriority, c \in 0..MaxCreated,
          st \in {"processing", "completed"} }

InitClaim ==
    /\ jobs \in [Jobs -> ClaimDocs]
    /\ pc = [w \in Workers |-> "off"]
    /\ job = [w \in Workers |-> NoJob]
    /\ current_job = [w \in Workers |-> NoJob]
    /\ shutdown = [w \in Workers |-> FALSE]
    /\ hbAlive = [w \in Workers |-> FALSE]
    /\ op = Internal
    /\ hbLost = [w \in Workers |-> FALSE]
    /\ hist = [j \in Jobs |-> "queued"]
    /\ failErr = [w \in Workers |-> FALSE]
    /\ perr = [w \in Workers |-> NoError]
    /\ IdleData

\* one call of claim_next by the repository of worker w
ClaimCall(w) ==
    /\ jobs' = claim_next(jobs, w, Now)
    /\ op' = Call("claim", w, ClaimPick(jobs),
                  IF ClaimPick(jobs) = NoJob THEN "none" ELSE "some")
    /\ UNCHANGED << pc, job, current_job, shutdown, hbAlive, hbLost, hist,
                    failErr, perr, dataVars >>

NextClaim == \E w \in Workers : ClaimCall(w)

SpecClaim == InitClaim /\ [][NextClaim]_vars

(***************************************************************************)
(* Properties of the worker loop and of the claim order.                   *)
(***************************************************************************)
\* the jobs that are processing under the id of worker w
HeldBy(w) ==
    { j \in Docs : jobs[j].status = "processing" /\ jobs[j].worker_id = w }

\* C11: in every reachable state at most one job has status processing
\* with the id of a given worker as its worker_id.
C11_OneJobPerWorker ==
    \A w \in Workers : Cardinality(HeldBy(w)) <= 1

\* C12: if a worker is never shut down and none of its database calls
\* returns an error, every job of the queue is eventually claimed and
\* eventually has a terminal status.
C12_NoJobMissed ==
    \A w \in Workers, j \in Jobs :
      ( /\ pc[w] # "off"
        /\ j \in DOMAIN jobs
        /\ [](~shutdown[w])
        /\ [](op.by = w => op.ret # "err") )
      => ( /\ <>(j \in DOMAIN jobs /\ hist[j] # "queued")
           /\ <>(j \in DOMAIN jobs /\ jobs[j].status \in Terminal) )

\* C13: when process_job has returned an error for the claimed job, the
\* worker's next step is fail on that job with the text of the error; if
\* the write succeeds the job is failed with that text as result.errors;
\* the worker then clears its current job and goes back to the top of the
\* loop, where it claims again unless it was shut down.
C13_FailAfterError ==
    /\ [](\A w \in Workers :
            /\ pc[w] = "mark_failed" => perr[w] # NoError /\ job[w] # NoJob
            /\ (pc[w] = "clear" /\ perr[w] # NoError /\ ~failErr[w]) =>
                  /\ jobs[job[w]].status = "failed"
                  /\ jobs[job[w]].result = JobResult_failure(<< perr[w] >>))
    /\ [][ \A w \in Workers :
             /\ (pc[w] = "mark_failed" /\ pc'[w] # "mark_failed") =>
                   /\ op' \in { Call("fail", w, job[w], r) : r \in {"ok", "err"} }
                   /\ op'.ret = "ok" =>
                        jobs' = [jobs EXCEPT ![job[w]] =
                                   [@ EXCEPT !.status = "failed",
                                             !.completed_at = Some(Instant),
                                             !.result = JobResult_failure(
                                                            << perr[w] >>)]]
                   /\ op'.ret = "err" => jobs' = jobs
                   /\ pc'[w] = "clear"
             /\ (pc[w] = "clear" /\ pc'[w] # "clear") => pc'[w] = "check"
             /\ (pc[w] = "check" /\ pc'[w] # "check" /\ ~shutdown[w])
                   => pc'[w] = "claim"
         ]_vars

\* after a job was failed with the generator's error the worker has claimed
\* the next job
C13_Witness ==
    \E w \in Workers, j, k \in Docs :
      /\ jobs[j].status = "failed"
      /\ jobs[j].result = JobResult_failure(<< GeneratorError >>)
      /\ jobs[j].worker_id = w
      /\ op = Call("claim", w, k, "some")

\* C14: claim returns, among the jobs with status queued and worker_id
\* null, one with the smallest priority and, among those, the earliest
\* created_at; it returns nothing only if there is no such job.
C14_ClaimOrder ==
    [][ Called("claim") =>
          LET F == { k \in Docs : jobs[k].status = "queued"
                                  /\ jobs[k].worker_id = NoWorker }
          IN  IF F = {}
              THEN op'.ret = "none" /\ jobs' = jobs
              ELSE /\ op'.ret = "some"
                   /\ op'.job \in F
                   /\ jobs'[op'.job].status = "processing"
                   /\ \A k \in F :
                        \/ jobs[op'.job].priority < jobs[k].priority
                        \/ /\ jobs[op'.job].priority = jobs[k].priority
                           /\ jobs[op'.job].created_at <= jobs[k].created_at
      ]_vars

\* the claimed job beat a job of the same priority created later and a job
\* created earlier with a larger priority value
C14_Witness ==
    \E j, k, m \in Docs :
      /\ op.op = "claim" /\ op.ret = "some" /\ op.job = j
      /\ jobs[k].status = "queued" /\ jobs[m].status = "queued"
      /\ jobs[k].priority = jobs[j].priority
      /\ jobs[k].created_at > jobs[j].created_at
      /\ jobs[m].priority > jobs[j].priority
      /\ jobs[m].created_at < jobs[j].created_at

(***************************************************************************)
(* Part 2: configuration texts.  A string is a sequence of characters; a   *)
(* blocklist configuration is a sequence of lines.  A source line is       *)
(* written by its fields (the line split at '|', each field trimmed):      *)
(* the URL, the optional name, the optional category (a line with a       *)
(* category has a name).  Every URL of the model is absolute: the string   *)
(* u stands for the URL "https://h/" u.                                    *)
(***************************************************************************)
\* the characters of the model, in ascending byte order
Alphabet == << "-", "/", "A", "B", "a", "b", "h" >>

Ord(c) == CHOOSE i \in 1..Len(Alphabet) : Alphabet[i] = c

\* char::to_lowercase
Lower(c) == CASE c = "A" -> "a" [] c = "B" -> "b" [] OTHER -> c

\* str::to_lowercase
to_lowercase(str) == [i \in 1..Len(str) |-> Lower(str[i])]

\* str::trim_end_matches(c): every trailing c is removed
RECURSIVE trim_end_matches(_, _)
trim_end_matches(str, c) ==
    IF str # << >> /\ str[Len(str)] = c
    THEN trim_end_matches(SubSeq(str, 1, Len(str) - 1), c)
    ELSE str

\* Ord for str: a.cmp(&b) is Less or Equal (byte-wise lexicographic order)
RECURSIVE StrLe(_, _)
StrLe(a, b) ==
    IF a = << >> THEN TRUE
    ELSE IF b = << >> THEN FALSE
    ELSE IF Head(a) = Head(b) THEN StrLe(Tail(a), Tail(b))
    ELSE Ord(Head(a)) < Ord(Head(b))

\* the host of every URL of the model, the name of a source without one
HostName == << "h" >>

CommentLine(text) == [ kind |-> "comment", text |-> text ]
SourceLine(url, name, category) ==
    [ kind |-> "source", url |-> url, name |-> name, category |-> category ]

\* Source (downloader.rs): name, url, category
Source(name, url, category) ==
    [ name |-> name, url |-> url, category |-> category ]

BlankLine == [ kind |-> "blank" ]

\* url::Url::parse(url).is_ok(): the URLs of the model stand for absolute
\* URLs of one scheme; the empty text and a text that begins with '/' are
\* relative references, which do not parse without a base
UrlParses(url) == url # << >> /\ Head(url) # "/"

\* a parse that appends every source line with a URL
RECURSIVE ParseKeepsDuplicates(_, _, _)
ParseKeepsDuplicates(lines, sources, seen_urls) ==
    IF lines = << >> THEN sources
    ELSE LET line == Head(lines) IN
         IF line.kind \in {"blank", "comment"}
         THEN ParseKeepsDuplicates(Tail(lines), sources, seen_urls)
         ELSE IF ~UrlParses(line.url)
         THEN ParseKeepsDuplicates(Tail(lines), sources, seen_urls)
         ELSE ParseKeepsDuplicates(Tail(lines),
                          Append(sources,
                                 Source(IF line.name = Null THEN HostName
                                        ELSE line.name[1],
                                        line.url, line.category)),
                          seen_urls \cup {line.url})

\* Downloader::parse_config: lines that are empty or start with '#' are
\* skipped, a line whose URL does not parse is skipped, a URL seen before
\* is skipped, a missing name is the URL's host
RECURSIVE parse_lines(_, _, _)
parse_lines(lines, sources, seen_urls) ==
    IF lines = << >> THEN sources
    ELSE LET line == Head(lines) IN
         IF line.kind \in {"blank", "comment"}
         THEN parse_lines(Tail(lines), sources, seen_urls)
         ELSE IF ~UrlParses(line.url)
         THEN parse_lines(Tail(lines), sources, seen_urls)
         ELSE IF line.url \in seen_urls
         THEN parse_lines(Tail(lines), sources, seen_urls)
         ELSE parse_lines(Tail(lines),
                          Append(sources,
                                 Source(IF line.name = Null THEN HostName
                                        ELSE line.name[1],
                                        line.url, line.category)),
                          seen_urls \cup {line.url})

parse_config(lines) == parse_lines(lines, << >>, {})

\* The configuration texts given to parse_config alone: up to MaxConfigLines
\* lines, among them blank lines, comments, lines whose first field is not
\* an absolute URL, and lines that repeat a URL under another name or
\* category.
MaxConfigLines == 3

ConfigUrls == { << "a" >>, << "b" >> }

ConfigLines ==
    { BlankLine, CommentLine("c1") }
    \cup { SourceLine(<< "/", "a" >>, Some(<< "A" >>), Null) }
    \cup { SourceLine(u, Null, Null) : u \in ConfigUrls }
    \cup { SourceLine(u, Some(n), c) :
             u \in ConfigUrls, n \in { << "A" >>, << "b" >> },
             c \in {Null, Some(<< "A" >>)} }

ConfigTexts == UNION { [1..n -> ConfigLines] : n \in 0..MaxConfigLines }

\* the place of source x in a list sorted by url: after every element that
\* is not greater (slice::sort_by is stable)
RECURSIVE InsertByUrl(_, _)
InsertByUrl(x, sorted) ==
    IF sorted = << >> THEN << x >>
    ELSE IF StrLe(Head(sorted).url, x.url)
    THEN << Head(sorted) >> \o InsertByUrl(x, Tail(sorted))
    ELSE << x >> \o sorted

\* sources.sort_by(|a, b| a.url.cmp(&b.url))
RECURSIVE sort_by_url(_)
sort_by_url(sources) ==
    IF sources = << >> THEN << >>
    ELSE InsertByUrl(sources[Len(sources)],
                     sort_by_url(SubSeq(sources, 1, Len(sources) - 1)))

\* format!("{}|{}|{}", url.to_lowercase().trim_end_matches('/'),
\*         name.to_lowercase(), category.unwrap_or("").to_lowercase());
\* the fields hold no '|' and no line break, so the string is its fields
SourceStr(src) ==
    << trim_end_matches(to_lowercase(src.url), "/"),
       to_lowercase(src.name),
       IF src.category = Null THEN << >> ELSE to_lowercase(src.category[1]) >>

\* SHA-256, taken as collision free: the digest is written as its preimage
Sha256(preimage) == << "sha256", preimage >>

\* WhitelistManager::patterns_as_strings of from_content(whitelist): the
\* parsed patterns in the order of the text
patterns_as_strings(whitelist) == whitelist

\* a fingerprint over the sources in the order of the text
FingerprintUnsorted(blocklists, whitelist) ==
    Sha256(<< [i \in 1..Len(parse_config(blocklists)) |->
                   SourceStr(parse_config(blocklists)[i])],
              patterns_as_strings(whitelist) >>)

\* JobProcessor::compute_config_fingerprint
compute_config_fingerprint(blocklists, whitelist) ==
    LET sources == sort_by_url(parse_config(blocklists))
    IN  Sha256(<< [i \in 1..Len(sources) |-> SourceStr(sources[i])],
                  patterns_as_strings(whitelist) >>)

\* JobProcessor::compute_config_hash: the texts byte for byte
compute_config_hash(blocklists, whitelist) ==
    Sha256(<< blocklists, "---SEPARATOR---", whitelist >>)

(***************************************************************************)
(* The fingerprint as a function of the text: a configuration text and     *)
(* the texts that cosmetic edits make of it.                               *)
(***************************************************************************)
MaxLines == 2

Urls == { << "a" >>, << "a", "/" >>, << "a", "-" >>, << "b" >> }
Names == { << "A" >>, << "b" >> }
Comments == { "c1", "c2" }

Lines ==
    { CommentLine(t) : t \in Comments }
    \cup { SourceLine(u, Null, Null) : u \in Urls }
    \cup { SourceLine(u, Some(n), c) :
             u \in Urls, n \in Names, c \in {Null, Some(<< "A" >>)} }

Texts == UNION { [1..n -> Lines] : n \in 0..MaxLines }

\* the whitelist of the tenant, the same before and after the edits
TheWhitelist == << << "a" >> >>

IdleProtocol ==
    /\ jobs = << >>
    /\ pc = [w \in Workers |-> "off"]
    /\ job = [w \in Workers |-> NoJob]
    /\ current_job = [w \in Workers |-> NoJob]
    /\ shutdown = [w \in Workers |-> FALSE]
    /\ hbAlive = [w \in Workers |-> FALSE]
    /\ op = Internal
    /\ hbLost = [w \in Workers |-> FALSE]
    /\ hist = << >>
    /\ failErr = [w \in Workers |-> FALSE]
    /\ perr = [w \in Workers |-> NoError]

InitFingerprint ==
    /\ IdleProtocol
    /\ users = << >>
    /\ cache = {}
    /\ outputs = << >>
    /\ run = << >>
    /\ content \in Texts
    /\ edited = content
    /\ IdleLib

Edit(text) ==
    /\ edited' = text
    /\ UNCHANGED << jobs, pc, job, current_job, shutdown, hbAlive, op, hbLost,
                    hist, failErr, perr, users, cache, outputs, run,
                    content, libVars >>

\* two neighbouring lines change places
ReorderLines(i) ==
    /\ i \in 1..(Len(edited) - 1)
    /\ Edit([edited EXCEPT ![i] = edited[i + 1], ![i + 1] = edited[i]])

\* a comment line is added in front of line i (or at the end)
AddComment(i, t) ==
    /\ Len(edited) <= MaxLines
    /\ i \in 1..(Len(edited) + 1)
    /\ Edit(SubSeq(edited, 1, i - 1) \o << CommentLine(t) >>
                \o SubSeq(edited, i, Len(edited)))

\* comment line i is removed
RemoveComment(i) ==
    /\ i \in 1..Len(edited)
    /\ edited[i].kind = "comment"
    /\ Edit(SubSeq(edited, 1, i - 1) \o SubSeq(edited, i + 1, Len(edited)))

\* comment line i gets another text
ChangeComment(i, t) ==
    /\ i \in 1..Len(edited)
    /\ edited[i].kind = "comment"
    /\ edited[i].text # t
    /\ Edit([edited EXCEPT ![i] = CommentLine(t)])

\* the URL of source line i gets a trailing slash, or loses the one it has
ToggleTrailingSlash(i) ==
    /\ i \in 1..Len(edited)
    /\ edited[i].kind = "source"
    /\ LET u == edited[i].url
       IN  Edit([edited EXCEPT ![i].url =
                    IF u[Len(u)] = "/" THEN SubSeq(u, 1, Len(u) - 1)
                    ELSE Append(u, "/")])

\* the letter case of a character: lower case to upper case and back
SwapCase(c) ==
    CASE c = "a" -> "A" [] c = "b" -> "B" [] c = "A" -> "a" [] c = "B" -> "b"
      [] OTHER -> c

\* the name or the category of source line i changes its letter case
ChangeCase(i) ==
    /\ i \in 1..Len(edited)
    /\ edited[i].kind = "source"
    /\ \/ /\ edited[i].name # Null
          /\ Edit([edited EXCEPT ![i].name =
                      Some([k \in 1..Len(@[1]) |-> SwapCase(@[1][k])])])
       \/ /\ edited[i].category # Null
          /\ Edit([edited EXCEPT ![i].category =
                      Some([k \in 1..Len(@[1]) |-> SwapCase(@[1][k])])])

NextFingerprint ==
    \E i \in 1..(MaxLines + 2) :
       \/ ReorderLines(i)
       \/ \E t \in Comments : AddComment(i, t)
       \/ RemoveComment(i)
       \/ \E t \in Comments : ChangeComment(i, t)
       \/ ToggleTrailingSlash(i)
       \/ ChangeCase(i)

SpecFingerprint == InitFingerprint /\ [][NextFingerprint]_vars

(***************************************************************************)
(* The whitelist matcher (whitelist.rs).  A whitelist text is a sequence   *)
(* of lines, a line and a domain are sequences of characters; the texts of *)
(* the model hold no blank, so line.trim() returns the line.               *)
(***************************************************************************)
starts_with(str, prefix) ==
    /\ Len(prefix) <= Len(str)
    /\ SubSeq(str, 1, Len(prefix)) = prefix

ends_with(str, suffix) ==
    /\ Len(suffix) <= Len(str)
    /\ SubSeq(str, Len(str) - Len(suffix) + 1, Len(str)) = suffix

contains(str, c) == \E i \in 1..Len(str) : str[i] = c

\* 85-88: the part of the line before the first '#'
StripComment(line) ==
    IF contains(line, "#")
    THEN SubSeq(line, 1, (CHOOSE i \in 1..Len(line) :
                             /\ line[i] = "#"
                             /\ \A k \in 1..(i - 1) : line[k] # "#") - 1)
    ELSE line

\* str.trim_start_matches("@@")
RECURSIVE trim_start_matches(_, _)
trim_start_matches(str, prefix) ==
    IF starts_with(str, prefix)
    THEN trim_start_matches(SubSeq(str, Len(prefix) + 1, Len(str)), prefix)
    ELSE str

\* 94-131: the kind of a pattern, decided in this order
PatternType(pattern) ==
    IF /\ starts_with(pattern, << "/" >>) /\ ends_with(pattern, << "/" >>)
       /\ Len(pattern) > 2
    THEN "regex"
    ELSE IF starts_with(pattern, << "@", "@" >>) THEN "subdomain"
    ELSE IF contains(pattern, "*") THEN "wildcard"
    ELSE "exact"

\* A regular expression is a sequence of tokens: "^" and "$" anchor, "."
\* matches one character, ".*" any characters, "\\." a dot, "(" and ")"
\* group, every other token is the character it matches.
\* format!("^{}$", regex::escape(pattern).replace(r"\*", ".*")) (115-118)
WildcardRegex(pattern) ==
    << "^" >>
    \o [i \in 1..Len(pattern) |->
          CASE pattern[i] = "*" -> ".*"
            [] pattern[i] = "." -> "\\."
            [] OTHER -> pattern[i]]
    \o << "$" >>

\* the parser of the regex crate rejects a group that is not closed and a
\* closing parenthesis that closes nothing
RECURSIVE Balanced(_, _)
Balanced(re, open) ==
    IF re = << >> THEN open = 0
    ELSE CASE Head(re) = "(" -> Balanced(Tail(re), open + 1)
           [] Head(re) = ")" -> open > 0 /\ Balanced(Tail(re), open - 1)
           [] OTHER -> Balanced(Tail(re), open)

Compiles(re) == Balanced(re, 0)

\* the expression matches a prefix of str
RECURSIVE MatchHere(_, _)
MatchHere(re, str) ==
    IF re = << >> THEN TRUE
    ELSE CASE Head(re) = "$" -> Len(re) = 1 /\ str = << >>
           [] Head(re) = ".*" ->
                 \E k \in 0..Len(str) :
                    MatchHere(Tail(re), SubSeq(str, k + 1, Len(str)))
           [] Head(re) \in {"(", ")"} -> MatchHere(Tail(re), str)
           [] OTHER ->
                 /\ str # << >>
                 /\ \/ Head(re) = "."
                    \/ Head(re) = "\\." /\ Head(str) = "."
                    \/ Head(re) = Head(str)
                 /\ MatchHere(Tail(re), Tail(str))

\* Regex::is_match: a match anywhere in str, unless the expression anchors
is_match(re, str) ==
    IF re # << >> /\ Head(re) = "^"
    THEN MatchHere(Tail(re), str)
    ELSE \E k \in 0..Len(str) : MatchHere(re, SubSeq(str, k + 1, Len(str)))

\* RegexSet::new(&regex_strings): Err when one expression does not compile
RegexSet_new(regex_strings) ==
    IF \A i \in 1..Len(regex_strings) : Compiles(regex_strings[i])
    THEN Some(regex_strings)
    ELSE Null

\* 137-147: no set without expressions; an Err of RegexSet::new is logged
\* and leaves the manager without a set
BuildRegexSet(regex_strings) ==
    IF regex_strings # << >> THEN RegexSet_new(regex_strings) ELSE Null

\* WhitelistManager::new
WhitelistManager_new ==
    [ exact_patterns |-> {}, subdomain_patterns |-> << >>,
      regex_strings |-> << >>, all_patterns |-> << >> ]

\* the loop of from_content (82-132): one line added to the collections
AddLine(m, line) ==
    LET pattern == StripComment(line)
        info == [ original |-> pattern, pattern_type |-> PatternType(pattern) ]
    IN  IF pattern = << >> THEN m
        ELSE CASE info.pattern_type = "regex" ->
                    [m EXCEPT
                       !.regex_strings =
                           Append(@, SubSeq(pattern, 2, Len(pattern) - 1)),
                       !.all_patterns = Append(@, info)]
               [] info.pattern_type = "subdomain" ->
                    LET domain == to_lowercase(
                                    trim_start_matches(pattern, << "@", "@" >>))
                    IN  [m EXCEPT
                           !.subdomain_patterns =
                               Append(@, << domain, << "." >> \o domain >>),
                           !.all_patterns = Append(@, info)]
               [] info.pattern_type = "wildcard" ->
                    [m EXCEPT
                       !.regex_strings = Append(@, WildcardRegex(pattern)),
                       !.all_patterns = Append(@, info)]
               [] OTHER ->
                    [m EXCEPT
                       !.exact_patterns = @ \cup {to_lowercase(pattern)},
                       !.all_patterns = Append(@, info)]

RECURSIVE AddLines(_, _)
AddLines(m, lines) ==
    IF lines = << >> THEN m
    ELSE AddLines(AddLine(m, Head(lines)), Tail(lines))

\* WhitelistManager::from_content
from_content(lines) ==
    LET m == AddLines(WhitelistManager_new, lines)
    IN  [ exact_patterns |-> m.exact_patterns,
          subdomain_patterns |-> m.subdomain_patterns,
          regex_set |-> BuildRegexSet(m.regex_strings),
          all_patterns |-> m.all_patterns ]

\* WhitelistManager::is_whitelisted
is_whitelisted(m, domain) ==
    \/ domain \in m.exact_patterns
    \/ \E i \in 1..Len(m.subdomain_patterns) :
          \/ domain = m.subdomain_patterns[i][1]
          \/ ends_with(domain, m.subdomain_patterns[i][2])
    \/ /\ m.regex_set # Null
       /\ \E i \in 1..Len(m.regex_set[1]) : is_match(m.regex_set[1][i], domain)

\* a filter that removes nothing
FilterKeepsAll(m, domains) == domains

\* WhitelistManager::filter_domains, the remaining domains
filter_domains(m, domains) ==
    IF m.all_patterns = << >> THEN domains
    ELSE { d \in domains : ~is_whitelisted(m, d) }

\* WhitelistManager::filter_domains, the removed count: the length of the
\* other half of the partition (0 without patterns)
removed_count(m, domains) ==
    IF m.all_patterns = << >> THEN 0
    ELSE Cardinality({ d \in domains : is_whitelisted(m, d) })

\* The whitelist texts of the model: at most MaxPatterns lines, among them
\* a pattern of every kind, a comment and the regex "(a", which does not
\* compile.
MaxPatterns == 2

PatternLines ==
    { << "a" >>,                              \* exact
      << "A", ".", "b" >>,                    \* exact, upper case
      << "@", "@", "b" >>,                    \* subdomain
      << "*", ".", "b" >>,                    \* wildcard
      << "/", "a", ".", "b", "/" >>,          \* regex: a, any character, b
      << "/", "(", "a", "/" >>,               \* regex, group not closed
      << "/", "(", "b", ")", "/" >>,          \* regex with a group
      << "b", "#", "a" >>,                    \* exact with inline comment
      << "#", "a" >> }                        \* comment

WhitelistTexts == UNION { [1..n -> PatternLines] : n \in 0..MaxPatterns }

Domains ==
    { << "a" >>, << "b" >>, << "a", ".", "b" >>, << "b", ".", "a" >>,
      << "a", "-", "b" >>, << "a", ".", "a", ".", "b" >> }

\* wl: the text, the manager from_content made of it (Null before), the
\* domain last asked about with the answer, the result of the last filter
InitWhitelist ==
    /\ IdleProtocol
    /\ users = << >> /\ cache = {} /\ outputs = << >> /\ run = << >>
    /\ content = << >> /\ edited = << >>
    /\ store = << >> /\ batch = << >> /\ ex = << >> /\ lookup = << >>
    /\ parsed = << >>
    /\ gen = << >>
    /\ \E text \in WhitelistTexts :
         wl = [ content |-> text, manager |-> Null, asked |-> Null,
                remaining |-> Null ]

WL_Frame ==
    UNCHANGED << jobs, pc, job, current_job, shutdown, hbAlive, op, hbLost,
                 hist, failErr, perr, users, cache, outputs, run, content,
                 edited, store, batch, ex, lookup, gen, parsed >>

WL_FromContent ==
    /\ wl.manager = Null
    /\ wl' = [wl EXCEPT !.manager = Some(from_content(wl.content))]
    /\ WL_Frame

WL_IsWhitelisted(domain) ==
    /\ wl.manager # Null
    /\ wl' = [wl EXCEPT
                !.asked = Some([ domain |-> domain,
                                 whitelisted |->
                                     is_whitelisted(wl.manager[1], domain) ])]
    /\ WL_Frame

WL_FilterDomains(domains) ==
    /\ wl.manager # Null
    /\ wl' = [wl EXCEPT
                !.remaining = Some([ domains |-> domains,
                                     remaining |->
                                         filter_domains(wl.manager[1],
                                                        domains),
                                     removed |->
                                         removed_count(wl.manager[1],
                                                       domains) ])]
    /\ WL_Frame

\* the sets handed to filter_domains: none, one or all of the domains
DomainSets ==
    { S \in SUBSET Domains : Cardinality(S) \in {0, 1, Cardinality(Domains)} }

NextWhitelist ==
    \/ WL_FromContent
    \/ \E domain \in Domains : WL_IsWhitelisted(domain)
    \/ \E domains \in DomainSets : WL_FilterDomains(domains)

SpecWhitelist == InitWhitelist /\ [][NextWhitelist]_vars

(***************************************************************************)
(* The source cache (db/cache.rs): the metadata documents of collection    *)
(* "cache" and the large objects of the GridFS bucket "cache_files".       *)
(* store.meta maps a url hash to Null (no document) or to its document, of *)
(* which the model keeps gridfs_id and whether updated_at is older than    *)
(* the cutoff of cleanup_stale; store.objects are the stored objects;      *)
(* store.proc holds, per worker, the call in progress and its locals.      *)
(***************************************************************************)
\* The most large objects ever uploaded.
MaxObjects == 3

UrlHashes == {"u1", "u2"}
ObjectIds == 1..MaxObjects

CacheEntry(gridfs_id, stale) == [ gridfs_id |-> gridfs_id, stale |-> stale ]

NoCall == [ pc |-> "idle", url_hash |-> Null, old |-> Null, id |-> Null,
            ids |-> {} ]

\* the filter of cleanup_stale: updated_at < cutoff
StaleFilter(meta) == { u \in UrlHashes : meta[u] # Null /\ meta[u].stale }

\* has_valid_cache (221-236): a document of the url hash with a handle and
\* updated_at >= cutoff
has_valid_cache(meta, u) ==
    meta[u] # Null /\ meta[u].gridfs_id # Null /\ ~meta[u].stale

InitCache ==
    /\ IdleProtocol
    /\ users = << >> /\ cache = {} /\ outputs = << >> /\ run = << >>
    /\ content = << >> /\ edited = << >>
    /\ wl = << >> /\ batch = << >> /\ ex = << >> /\ lookup = << >>
    /\ parsed = << >>
    /\ gen = << >>
    /\ store = [ meta |-> [u \in UrlHashes |-> Null], objects |-> {},
                 uploads |-> 0, proc |-> [w \in Workers |-> NoCall],
                 got |-> Null ]

Cache_Frame ==
    UNCHANGED << jobs, pc, job, current_job, shutdown, hbAlive, op, hbLost,
                 hist, failErr, perr, users, cache, outputs, run, content,
                 edited, wl, batch, ex, lookup, gen, parsed >>

\* store, 116-121: find_one; a failed read skips the delete
ST_Find(w, u) ==
    /\ store.proc[w].pc = "idle"
    /\ store.uploads < MaxObjects
    /\ \E found \in BOOLEAN :
         LET old == IF found /\ store.meta[u] # Null
                    THEN store.meta[u].gridfs_id ELSE Null
         IN  store' = [store EXCEPT
                         !.proc[w] = [NoCall EXCEPT
                                        !.pc = IF old = Null THEN "st_upload"
                                               ELSE "st_delete",
                                        !.url_hash = Some(u),
                                        !.old = old]]
    /\ Cache_Frame

\* store, 120: let _ = bucket.delete(old_gridfs_id)
ST_DeleteOld(w) ==
    /\ store.proc[w].pc = "st_delete"
    /\ \E deleted \in BOOLEAN :
         store' = [store EXCEPT
                     !.objects = IF deleted THEN @ \ {store.proc[w].old[1]}
                                 ELSE @,
                     !.proc[w].pc = "st_upload"]
    /\ Cache_Frame

\* store, 125-128: the upload, each call followed by `?`
ST_Upload(w) ==
    /\ store.proc[w].pc = "st_upload"
    /\ \E uploaded \in BOOLEAN :
         IF uploaded /\ store.uploads < MaxObjects
         THEN store' = [store EXCEPT
                          !.objects = @ \cup {store.uploads + 1},
                          !.uploads = @ + 1,
                          !.proc[w].id = Some(store.uploads + 1),
                          !.proc[w].pc = "st_update"]
         ELSE store' = [store EXCEPT !.proc[w] = NoCall]
    /\ Cache_Frame

\* store, 130-153: update_one with upsert, followed by `?`
ST_Update(w) ==
    /\ store.proc[w].pc = "st_update"
    /\ \E written \in BOOLEAN :
         store' = [store EXCEPT
                     !.meta = IF written
                              THEN [@ EXCEPT ![store.proc[w].url_hash[1]] =
                                       CacheEntry(store.proc[w].id, FALSE)]
                              ELSE @,
                     !.proc[w] = NoCall]
    /\ Cache_Frame

\* get_content (69-94): Some(content) when the handle resolves, else None;
\* touch writes the access statistics only
GetContent(w, u) ==
    /\ store.proc[w].pc = "idle"
    /\ \E found \in BOOLEAN :
         store' = [store EXCEPT
                     !.got = IF /\ found /\ store.meta[u] # Null
                                /\ store.meta[u].gridfs_id # Null
                                /\ store.meta[u].gridfs_id[1] \in store.objects
                             THEN Some("content") ELSE Some("none")]
    /\ Cache_Frame

\* update_domain_count (173-185): $set of stats.domain_count and updated_at
\* on the document of the url hash, no upsert
UpdateDomainCount(w, u) ==
    /\ store.proc[w].pc = "idle"
    /\ store.meta[u] # Null
    /\ store.meta[u].stale
    /\ store' = [store EXCEPT !.meta[u].stale = FALSE]
    /\ Cache_Frame

\* time passes: the updated_at of a document falls behind the cutoff
CacheAge(u) ==
    /\ store.meta[u] # Null
    /\ ~store.meta[u].stale
    /\ store' = [store EXCEPT !.meta[u].stale = TRUE]
    /\ Cache_Frame

\* cleanup_stale, 199-206: the handles of the stale documents are collected
CL_Find(w) ==
    /\ store.proc[w].pc = "idle"
    /\ \E found \in BOOLEAN :
         store' = [store EXCEPT
                     !.proc[w] =
                        IF found
                        THEN [NoCall EXCEPT
                                !.pc = "cl_delete",
                                !.ids = { store.meta[u].gridfs_id[1] :
                                            u \in { x \in StaleFilter(store.meta) :
                                                      store.meta[x].gridfs_id # Null } }]
                        ELSE NoCall]
    /\ Cache_Frame

\* cleanup_stale, 209-211: let _ = bucket.delete(gridfs_id), one by one
CL_Delete(w) ==
    /\ store.proc[w].pc = "cl_delete"
    /\ IF store.proc[w].ids = {}
       THEN store' = [store EXCEPT !.proc[w].pc = "cl_delete_many"]
       ELSE \E id \in store.proc[w].ids, deleted \in BOOLEAN :
              store' = [store EXCEPT
                          !.objects = IF deleted THEN @ \ {id} ELSE @,
                          !.proc[w].ids = @ \ {id}]
    /\ Cache_Frame

\* cleanup_stale, 214: delete_many(filter), followed by `?`
CL_DeleteMany(w) ==
    /\ store.proc[w].pc = "cl_delete_many"
    /\ \E deleted \in BOOLEAN :
         store' = [store EXCEPT
                     !.meta = IF deleted
                              THEN [u \in UrlHashes |->
                                      IF u \in StaleFilter(store.meta)
                                      THEN Null ELSE store.meta[u]]
                              ELSE @,
                     !.proc[w] = NoCall]
    /\ Cache_Frame

CleanupStep(w) == CL_Find(w) \/ CL_Delete(w) \/ CL_DeleteMany(w)

StoreStep(w) ==
    \/ \E u \in UrlHashes : ST_Find(w, u)
    \/ ST_DeleteOld(w)
    \/ ST_Upload(w)
    \/ ST_Update(w)

NextCache ==
    \/ \E w \in Workers :
          \/ StoreStep(w)
          \/ CleanupStep(w)
          \/ \E u \in UrlHashes : GetContent(w, u)
          \/ \E u \in UrlHashes : UpdateDomainCount(w, u)
    \/ \E u \in UrlHashes : CacheAge(u)

SpecCache == InitCache /\ [][NextCache]_vars

\* every call in progress goes on, documents age, and cleanup_stale keeps
\* being run
SpecCacheLive ==
    /\ SpecCache
    /\ \A w \in Workers : WF_vars(ST_DeleteOld(w) \/ ST_Upload(w) \/ ST_Update(w))
    /\ \A w \in Workers : SF_vars(CleanupStep(w))
    /\ \A u \in UrlHashes : WF_vars(CacheAge(u))

(***************************************************************************)
(* The downloader (downloader.rs): download_source with fetch_and_cache,   *)
(* and the batch of download_sources, a stream of the sources' futures     *)
(* run through buffered(max_concurrent).                                   *)
(***************************************************************************)
\* The most sources of a batch and the largest max_concurrent_downloads.
MaxBatch == 3
MaxConcurrent == 2

SourceNames == {"s1", "s2", "s3"}

\* the batches: sources without repetition (parse_config keeps one source
\* per URL)
Batches ==
    UNION { { b \in [1..n -> SourceNames] :
                \A i, k \in 1..n : i # k => b[i] # b[k] } : n \in 0..MaxBatch }

\* what the server and the file system answer to one download: the cache
\* holds valid content, the request fails, or a response with a status and
\* a body of so many bytes (none, 100 MiB, 100 MiB + 1) arrives and is or is
\* not written to disk
BodySizes == {0, 104857600, 104857601}

Answers ==
    { [ kind |-> "cached" ], [ kind |-> "send_error" ] }
    \cup { [ kind |-> "response", status |-> s, body |-> n, written |-> wr ] :
             s \in {200, 404}, n \in BodySizes, wr \in BOOLEAN }

Ok(v) == [ ok |-> TRUE, value |-> v ]
Err(e) == [ ok |-> FALSE, error |-> e ]

\* fetch_and_cache (211-283): send, status, the body streamed to the
\* content file, metadata; returns the bytes downloaded
fetch_and_cache(answer) ==
    IF answer.kind = "send_error" THEN Err("Failed to fetch")
    ELSE IF ~(answer.status \in 200..299) THEN Err("HTTP status")
    ELSE IF ~answer.written THEN Err("io error")
    ELSE Ok(answer.body)

\* download_source (143-209): the DownloadResult of a source.  `body` is
\* not a field of the struct: it keeps the size of the body that arrived.
download_source(source, answer) ==
    IF answer.kind = "cached"
    THEN [ source |-> source, cache_hit |-> TRUE, bytes_downloaded |-> 0,
           error |-> Null, body |-> Null ]
    ELSE LET result == fetch_and_cache(answer)
             body == IF answer.kind = "response" /\ answer.status \in 200..299
                     THEN Some(answer.body) ELSE Null
         IN  IF result.ok
             THEN [ source |-> source, cache_hit |-> FALSE,
                    bytes_downloaded |-> result.value, error |-> Null,
                    body |-> body ]
             ELSE [ source |-> source, cache_hit |-> FALSE,
                    bytes_downloaded |-> 0, error |-> Some(result.error),
                    body |-> body ]

\* batch: the sources, max_concurrent, how many futures the stream has
\* handed out, the in-progress queue of buffered (a future is running or
\* done with its output), the results collected, the indexes the progress
\* callback was called with, whether download_sources has returned, and
\* (not a value of the program) the order in which the futures finished
InitBatch ==
    /\ IdleProtocol
    /\ users = << >> /\ cache = {} /\ outputs = << >> /\ run = << >>
    /\ content = << >> /\ edited = << >>
    /\ wl = << >> /\ store = << >> /\ ex = << >> /\ lookup = << >>
    /\ parsed = << >>
    /\ gen = << >>
    /\ \E b \in Batches, n \in 0..MaxConcurrent :
         batch = [ sources |-> b, max_concurrent |-> n, taken |-> 0,
                   queue |-> << >>, results |-> << >>, callbacks |-> << >>,
                   returned |-> FALSE, finished |-> << >> ]

Batch_Frame ==
    UNCHANGED << jobs, pc, job, current_job, shutdown, hbAlive, op, hbLost,
                 hist, failErr, perr, users, cache, outputs, run, content,
                 edited, wl, store, ex, lookup, gen, parsed >>

\* the futures of the queue that have not finished
InFlight == { k \in 1..Len(batch.queue) : batch.queue[k].output = Null }

\* a queue that takes every future the stream has
QueueAlwaysHasRoom == TRUE

\* Buffered::poll_next: in_progress_queue.len() < max
QueueHasRoom == Len(batch.queue) < batch.max_concurrent

\* Buffered::poll_next: while the queue holds fewer than max futures the
\* next future of the stream is pushed; it starts to run
DS_Start ==
    /\ ~batch.returned
    /\ QueueHasRoom
    /\ batch.taken < Len(batch.sources)
    /\ batch' = [batch EXCEPT
                   !.taken = @ + 1,
                   !.queue = Append(@, [ idx |-> batch.taken + 1,
                                         source |-> batch.sources[batch.taken + 1],
                                         output |-> Null ])]
    /\ Batch_Frame

\* a running future ends (307-331): its output is (idx, result, progress)
DS_Finish(k) ==
    /\ k \in InFlight
    /\ \E answer \in Answers :
         batch' = [batch EXCEPT
                     !.queue[k].output =
                         Some(download_source(batch.queue[k].source, answer)),
                     !.finished = Append(@, batch.queue[k].idx)]
    /\ Batch_Frame

\* a queue that yields the output of whichever future has finished
YieldAny ==
    { k \in 1..Len(batch.queue) : batch.queue[k].output # Null }

\* FuturesOrdered: the output of the oldest future only
YieldOrdered ==
    { k \in {1} : batch.queue # << >> /\ batch.queue[1].output # Null }

\* 335-340: buffered yields, the callback is called, the result collected
DS_Yield ==
    /\ \E k \in YieldOrdered :
         batch' = [batch EXCEPT
                     !.queue = SubSeq(@, 1, k - 1) \o SubSeq(@, k + 1, Len(@)),
                     !.results = Append(@, batch.queue[k].output[1]),
                     !.callbacks = Append(@, batch.queue[k].idx)]
    /\ Batch_Frame

\* the stream is done and the queue empty: collect ends, the results are
\* returned
DS_Return ==
    /\ ~batch.returned
    /\ batch.taken = Len(batch.sources)
    /\ batch.queue = << >>
    /\ batch' = [batch EXCEPT !.returned = TRUE]
    /\ Batch_Frame

NextBatch ==
    \/ DS_Start
    \/ \E k \in 1..MaxBatch : DS_Finish(k)
    \/ DS_Yield
    \/ DS_Return

SpecBatch == InitBatch /\ [][NextBatch]_vars

\* the runtime polls the stream, and every request ends (the client has a
\* timeout)
SpecBatchLive == SpecBatch /\ WF_vars(NextBatch)

(***************************************************************************)
(* The extractor (extractor.rs): one line of a source, classified as hosts, *)
(* adblock or plain form, or skipped.  A line is a sequence of characters.  *)
(***************************************************************************)
\* [a-zA-Z0-9] over the characters of the model
IsAlnum(c) ==
    c \in { "a", "b", "c", "d", "e", "f", "h", "i", "k", "l", "m", "o", "p",
            "r", "s", "t", "v", "x", "y", "A", "B", "0", "1", "2", "7" }

\* str contains sub
contains_str(str, sub) ==
    \E i \in 0..(Len(str) - Len(sub)) : SubSeq(str, i + 1, i + Len(sub)) = sub

\* str::trim over the one white space character of the model
RECURSIVE trim(_)
trim(str) ==
    IF str # << >> /\ Head(str) = " " THEN trim(Tail(str))
    ELSE IF str # << >> /\ str[Len(str)] = " "
    THEN trim(SubSeq(str, 1, Len(str) - 1))
    ELSE str

\* [a-zA-Z0-9][-a-zA-Z0-9]*(?:\.[a-zA-Z0-9][-a-zA-Z0-9]*)+ matches all of
\* str: labels of letters, digits and "-" that start with a letter or a
\* digit, two or more of them, joined by "."
IsDomain(str) ==
    /\ str # << >>
    /\ \A i \in 1..Len(str) : IsAlnum(str[i]) \/ str[i] \in { "-", "." }
    /\ IsAlnum(str[1])
    /\ contains(str, ".")
    /\ \A i \in 1..Len(str) :
          str[i] = "." => i < Len(str) /\ IsAlnum(str[i + 1])

\* comment_pattern ^[#!] (97)
IsComment(line) == Head(line) \in { "#", "!" }

\* css_filter_pattern ##|#@#|#\?#|#\$#|#\+js\( (99)
IsCssFilter(line) ==
    \/ contains_str(line, << "#", "#" >>)
    \/ contains_str(line, << "#", "@", "#" >>)
    \/ contains_str(line, << "#", "?", "#" >>)
    \/ contains_str(line, << "#", "$", "#" >>)
    \/ contains_str(line, << "#", "+", "j", "s", "(" >>)

\* the modifier names of skip_modifiers_pattern (104)
SkipModifiers ==
    { << "t", "h", "i", "r", "d", "-", "p", "a", "r", "t", "y" >>,
      << "b", "a", "d", "f", "i", "l", "t", "e", "r" >>,
      << "r", "e", "m", "o", "v", "e", "p", "a", "r", "a", "m" >>,
      << "r", "e", "d", "i", "r", "e", "c", "t" >>,
      << "c", "s", "p" >>,
      << "r", "e", "p", "l", "a", "c", "e" >>,
      << "c", "o", "o", "k", "i", "e" >> }

\* a skip pattern that finds a modifier name anywhere behind the "$"
ContainsSkipModifier(mod_str) ==
    \E i \in 1..Len(mod_str) :
       /\ mod_str[i] = "$"
       /\ \E name \in SkipModifiers :
             contains_str(to_lowercase(SubSeq(mod_str, i + 1, Len(mod_str))),
                          name)

\* skip_modifiers_pattern.is_match, (?i)\$(.*,)?(third-party|...) (104): a
\* "$", then nothing or anything up to a ",", then one of the names, in
\* either case
skip_modifiers_match(mod_str) ==
    \E i \in 1..Len(mod_str) :
       /\ mod_str[i] = "$"
       /\ \E j \in i..Len(mod_str) :
             /\ j = i \/ mod_str[j] = ","
             /\ \E name \in SkipModifiers :
                   starts_with(
                       to_lowercase(SubSeq(mod_str, j + 1, Len(mod_str))),
                       name)

\* hosts_pattern.captures (91): 0.0.0.0 or 127.0.0.1, white space, and the
\* longest domain the rest starts with (group 1), Null without a match
hosts_captures(line) ==
    LET Ips == { << "0", ".", "0", ".", "0", ".", "0" >>,
                 << "1", "2", "7", ".", "0", ".", "0", ".", "1" >> }
        Rests == { SubSeq(line, Len(ip) + 1, Len(line)) :
                     ip \in { p \in Ips : starts_with(line, p) } }
        Ends(rest) == { k \in 1..Len(trim(rest)) :
                          /\ Head(rest) = " "
                          /\ IsDomain(SubSeq(trim(rest), 1, k)) }
    IN  IF \E rest \in Rests : Ends(rest) # {}
        THEN LET rest == CHOOSE r \in Rests : Ends(r) # {}
                 k == CHOOSE n \in Ends(rest) : \A o \in Ends(rest) : o <= n
             IN  Some(SubSeq(trim(rest), 1, k))
        ELSE Null

\* adblock_pattern.captures (95), ^\|\|(domain)\^?(\$.+)?$: the domain
\* (group 1) and the modifiers with their "$" (group 2, Null when absent),
\* Null without a match
adblock_captures(line) ==
    IF ~starts_with(line, << "|", "|" >>) THEN Null
    ELSE LET rest == SubSeq(line, 3, Len(line))
             Stops == { i \in 1..Len(rest) : rest[i] \in { "^", "$" } }
             k == IF Stops = {} THEN Len(rest) + 1
                  ELSE CHOOSE i \in Stops : \A o \in Stops : i <= o
             domain == SubSeq(rest, 1, k - 1)
             tail == SubSeq(rest, k, Len(rest))
             modifiers == IF tail # << >> /\ Head(tail) = "^"
                          THEN Tail(tail) ELSE tail
         IN  IF ~IsDomain(domain) THEN Null
             ELSE IF modifiers = << >>
             THEN Some([ domain |-> domain, modifiers |-> Null ])
             ELSE IF Head(modifiers) = "$" /\ Len(modifiers) >= 2
             THEN Some([ domain |-> domain, modifiers |-> Some(modifiers) ])
             ELSE Null

ExtractionResult(domain, raw_adblock_rule, format) ==
    Some([ domain |-> domain, raw_adblock_rule |-> raw_adblock_rule,
           format |-> format ])

\* DomainExtractor::extract_domain
extract_domain(untrimmed) ==
    LET line == trim(untrimmed)
        hosts == hosts_captures(line)
        adblock == adblock_captures(line)
    IN  IF line = << >> \/ IsComment(line) THEN Null
        ELSE IF IsCssFilter(line) THEN Null
        ELSE IF hosts # Null
        THEN ExtractionResult(to_lowercase(hosts[1]), Null, "hosts")
        ELSE IF adblock # Null
        THEN IF /\ adblock[1].modifiers # Null
                /\ skip_modifiers_match(adblock[1].modifiers[1])
             THEN Null
             ELSE ExtractionResult(to_lowercase(adblock[1].domain),
                                   Some(line), "adblock")
        ELSE IF IsDomain(line)
        THEN ExtractionResult(to_lowercase(line), Null, "plain")
        ELSE Null

\* The lines of the model.  An adblock rule is "||", a domain, "^", "$" and
\* one or two options joined by ","; the options are a modifier the
\* extractor keeps, the seven names it skips, one of them in upper case,
\* as a value, as the start of a longer name and with a value, and a
\* cosmetic marker.
Options ==
    SkipModifiers
    \cup { << "x" >>,
           << "B", "A", "d", "f", "i", "l", "t", "e", "r" >>,
           << "x", "=", "c", "s", "p" >>,
           << "c", "s", "p", "x" >>,
           << "c", "s", "p", "=", "x" >>,
           << "#", "#" >> }

Modifiers == Options \cup { a \o << "," >> \o b : a, b \in Options }

RuleDomains == { << "a", ".", "b" >>, << "A", ".", "b", "-", ".", "a" >> }

AdblockRule(domain, modifiers) ==
    << "|", "|" >> \o domain \o << "^", "$" >> \o modifiers

OtherLines ==
    { << >>,
      << " " >>,
      << "#", " ", "a", ".", "b" >>,
      << "!", "a", ".", "b" >>,
      << "a", ".", "b" >>,
      << " ", "A", ".", "b", " " >>,
      << "a" >>,
      << "a", ".", "b", "#", "#", "x" >>,
      << "0", ".", "0", ".", "0", ".", "0", " ", " ", "A", ".", "b" >>,
      << "1", "2", "7", ".", "0", ".", "0", ".", "1", " ", "a", ".", "b",
         " ", "#", "x" >>,
      << "0", ".", "0", ".", "0", ".", "0", "a", ".", "b" >>,
      << "|", "|", "a", ".", "b" >>,
      << "|", "|", "A", ".", "b", "^" >>,
      << "|", "|", "a", ".", "b", "$", "c", "s", "p" >>,
      << "|", "|", "a", ".", "b", "^", "$" >>,
      << "|", "|", "a", "^" >>,
      << "|", "|", "a", ".", "b", "^", "^" >> }

\* ex: the line, for an adblock rule the domain and the modifiers it was
\* made of (Null for another line), and what extract_domain answered
\* (Null before the call)

InitExtract ==
    /\ IdleProtocol
    /\ users = << >> /\ cache = {} /\ outputs = << >> /\ run = << >>
    /\ content = << >> /\ edited = << >>
    /\ wl = << >> /\ store = << >> /\ batch = << >> /\ lookup = << >>
    /\ parsed = << >>
    /\ gen = << >>
    /\ \/ \E domain \in RuleDomains, modifiers \in Modifiers :
            ex = [ line |-> AdblockRule(domain, modifiers),
                   rule |-> Some([ domain |-> domain,
                                   modifiers |-> modifiers ]),
                   result |-> Null ]
       \/ \E line \in OtherLines :
            ex = [ line |-> line, rule |-> Null, result |-> Null ]

Extract_Frame ==
    UNCHANGED << jobs, pc, job, current_job, shutdown, hbAlive, op, hbLost,
                 hist, failErr, perr, users, cache, outputs, run, content,
                 edited, wl, store, batch, lookup, gen, parsed >>

\* extract_from_content, for one line of the content
EX_ExtractDomain ==
    /\ ex.result = Null
    /\ ex' = [ex EXCEPT !.result = Some(extract_domain(ex.line))]
    /\ Extract_Frame

NextExtract == EX_ExtractDomain

SpecExtract == InitExtract /\ [][NextExtract]_vars

(***************************************************************************)
(* The generation stage (processor.rs 793-860) and the unique_domains of   *)
(* the result (524-529).  The output generator writes, for a list named C, *)
(* the files C_hosts, C_plain and C_adblock, each with the domain count of *)
(* the list.                                                               *)
(***************************************************************************)
Categories == { Null, Some("nsfw"), Some("ads"), Some("all_domains") }

GenDomains == { << "a" >>, << "b" >>, << "a", "b" >> }

\* a bucket the whitelist stage leaves in the map is not empty
MaxBucket == 2
Buckets ==
    { S \in SUBSET GenDomains : Cardinality(S) \in 1..MaxBucket }

FilteredMaps == UNION { [C -> Buckets] : C \in SUBSET Categories }

\* DomainExtractor::sort_domains
sort_domains(domains) ==
    CHOOSE sorted \in [1..Cardinality(domains) -> domains] :
       /\ \A i, k \in DOMAIN sorted : i < k => sorted[i] # sorted[k]
       /\ \A i, k \in DOMAIN sorted : i < k => StrLe(sorted[i], sorted[k])

Range(seq) == { seq[i] : i \in DOMAIN seq }

\* the name of the list of a category
ListName(category) ==
    IF category = Null THEN "uncategorized" ELSE category[1]

\* the three files of a list
ListFiles(list, sorted) ==
    [i \in 1..3 |->
       [ name |-> [ list |-> list,
                    format |-> << "hosts", "plain", "adblock" >>[i] ],
         domain_count |-> Len(sorted) ]]

\* OutputGenerator::generate_all_categories: the files of the categories,
\* in the order the categories were taken out of the map
RECURSIVE generate_all_categories(_, _)
generate_all_categories(sorted_by_category, order) ==
    IF order = << >> THEN << >>
    ELSE ListFiles(ListName(Head(order)), sorted_by_category[Head(order)])
         \o generate_all_categories(sorted_by_category, Tail(order))

\* 826-838: the union of the lists of every category but Some("nsfw")
all_domains(sorted_by_category) ==
    UNION { Range(sorted_by_category[cat]) :
              cat \in { c \in DOMAIN sorted_by_category : c # Some("nsfw") } }

\* f.name.starts_with("all_domains"): of the list names of the model only
\* all_domains starts so
NameStartsWithAllDomains(name) == name.list = "all_domains"

\* 524-529: the domain count of the first file whose name starts with
\* all_domains, 0 without one
unique_domains(output_files) ==
    LET Hits == { i \in DOMAIN output_files :
                    NameStartsWithAllDomains(output_files[i].name) }
    IN  IF Hits = {} THEN 0
        ELSE output_files[CHOOSE i \in Hits : \A k \in Hits : i <= k].domain_count

InitGenerate ==
    /\ IdleProtocol
    /\ users = << >> /\ cache = {} /\ outputs = << >> /\ run = << >>
    /\ content = << >> /\ edited = << >>
    /\ wl = << >> /\ store = << >> /\ batch = << >> /\ ex = << >>
    /\ parsed = << >>
    /\ lookup = << >>
    /\ \E category_domains \in FilteredMaps :
         gen = [ category_domains |-> category_domains, all_sorted |-> Null,
                 output_files |-> Null, unique_domains |-> Null ]

Generate_Frame ==
    UNCHANGED << jobs, pc, job, current_job, shutdown, hbAlive, op, hbLost,
                 hist, failErr, perr, users, cache, outputs, run, content,
                 edited, wl, store, batch, ex, lookup, parsed >>

\* generation_stage 816-850: the lists are sorted, the files of the
\* categories generated, then the combined files appended
GS_Generate ==
    /\ gen.output_files = Null
    /\ LET cats == DOMAIN gen.category_domains
           sorted_by_category ==
               [c \in cats |-> sort_domains(gen.category_domains[c])]
           all_sorted == sort_domains(all_domains(sorted_by_category))
       IN  \E order \in [1..Cardinality(cats) -> cats] :
             /\ \A i, k \in DOMAIN order : i < k => order[i] # order[k]
             /\ gen' = [gen EXCEPT
                          !.all_sorted = Some(all_sorted),
                          !.output_files =
                              Some(generate_all_categories(sorted_by_category,
                                                           order)
                                   \o ListFiles("all_domains", all_sorted))]
    /\ Generate_Frame

\* process_job 524-529
GS_UniqueDomains ==
    /\ gen.output_files # Null
    /\ gen.unique_domains = Null
    /\ gen' = [gen EXCEPT
                 !.unique_domains = Some(unique_domains(gen.output_files[1]))]
    /\ Generate_Frame

NextGenerate == GS_Generate \/ GS_UniqueDomains

SpecGenerate == InitGenerate /\ [][NextGenerate]_vars

(***************************************************************************)
(* parse_config on its own (downloader.rs 349-401).                        *)
(***************************************************************************)
InitParse ==
    /\ IdleProtocol
    /\ users = << >> /\ cache = {} /\ outputs = << >> /\ run = << >>
    /\ content = << >> /\ edited = << >>
    /\ wl = << >> /\ store = << >> /\ batch = << >> /\ ex = << >>
    /\ lookup = << >> /\ gen = << >>
    /\ \E lines \in ConfigTexts : parsed = [ lines |-> lines, sources |-> Null ]

Parse_Frame ==
    UNCHANGED << jobs, pc, job, current_job, shutdown, hbAlive, op, hbLost,
                 hist, failErr, perr, users, cache, outputs, run, content,
                 edited, wl, store, batch, ex, lookup, gen >>

\* Downloader::parse_config(content)
PC_ParseConfig ==
    /\ parsed.sources = Null
    /\ parsed' = [parsed EXCEPT !.sources = Some(parse_config(parsed.lines))]
    /\ Parse_Frame

NextParse == PC_ParseConfig

SpecParse == InitParse /\ [][NextParse]_vars

(***************************************************************************)
(* Part 3: the build.  process_job with the data it reads and writes: the  *)
(* tenant store (user_configs, users, system_config), the source cache,    *)
(* the output directories and the results of the jobs.                     *)
(***************************************************************************)
NamedTenants == Tenants \ {Default}

\* A tenant as the repositories see it: the two texts of user_configs, and
\* of the users document (for Default: of system_config.default_build) the
\* fields update_after_build writes and find_user_by_fingerprint reads.
NewUser(blocklists, whitelist, is_enabled) ==
    [ blocklists |-> blocklists, whitelist |-> whitelist,
      is_enabled |-> is_enabled, lists |-> << >>,
      config_hash |-> Null, config_fingerprint |-> Null,
      last_build_at |-> Null ]

\* Utc::now() of a stats write: later than every stored last_build_at
BuildNow(us) ==
    LET Built == { t \in DOMAIN us : us[t].last_build_at # Null }
        Latest == CHOOSE n \in { us[t].last_build_at[1] : t \in Built } :
                     \A t \in Built : us[t].last_build_at[1] <= n
    IN  IF Built = {} THEN 1 ELSE Latest + 1

\* an update_after_build that stamps last_build_at and nothing else
UpdateStampOnly(us, t, lists, config_hash, config_fp) ==
    [us EXCEPT ![t].last_build_at = Some(BuildNow(us))]

\* an update_after_build that never stores config_hash
UpdateWithoutHash(us, t, lists, config_hash, config_fp) ==
    [us EXCEPT ![t].config_fingerprint = Some(config_fp),
               ![t].last_build_at = Some(BuildNow(us))]

\* UserRepository::update_after_build
update_after_build(us, t, lists, config_hash, config_fp) ==
    IF t = Default
    THEN [us EXCEPT ![t].config_fingerprint = Some(config_fp),
                    ![t].last_build_at = Some(BuildNow(us))]
    ELSE [us EXCEPT ![t].lists = lists,
                    ![t].last_build_at = Some(BuildNow(us)),
                    ![t].config_hash = Some(config_hash),
                    ![t].config_fingerprint = Some(config_fp)]

\* UserRepository::get_config_hash
get_config_hash(us, t) == IF t = Default THEN Null ELSE us[t].config_hash

\* MatchedUser
MatchedUser(t, lists) == [ username |-> t, lists |-> lists ]

\* UserRepository::find_user_by_fingerprint
find_user_by_fingerprint(us, fingerprint, exclude_username) ==
    IF /\ exclude_username # Default
       /\ us[Default].config_fingerprint = Some(fingerprint)
    THEN Some(MatchedUser(Default, << >>))
    ELSE LET Found == { t \in NamedTenants \ {exclude_username} :
                          /\ us[t].config_fingerprint = Some(fingerprint)
                          /\ us[t].lists # << >>
                          /\ us[t].last_build_at # Null
                          /\ us[t].is_enabled }
         IN  IF Found = {} THEN Null
             ELSE LET t == CHOOSE x \in Found :
                             \A y \in Found : us[y].last_build_at[1]
                                                <= us[x].last_build_at[1]
                  IN  Some(MatchedUser(t, us[t].lists))

\* Downloader::check_all_cached: every source has a valid cache entry
check_all_cached(cached, sources) ==
    \A i \in 1..Len(sources) : sources[i].url \in cached

\* a self-match test that does not ask the cache
NoChangesHashOnly(stored_hash, current_config_hash, all_cached) ==
    stored_hash = Some(current_config_hash)

\* the self-match test of process_job (251-255)
NoChangesDetected(stored_hash, current_config_hash, all_cached) ==
    stored_hash = Some(current_config_hash) /\ all_cached

\* JobRepository::get_last_completed_result: the results of the completed
\* jobs of the tenant (the latest of them is returned)
CompletedResults(jb, t) ==
    { jb[j].result : j \in { k \in DOMAIN jb : /\ jb[k].username = t
                                               /\ jb[k].status = "completed" } }

\* An output directory: absent, or the set of its *.txt.gz files.  A file
\* is known by what it was generated from.
NoDir == [ dir |-> FALSE, files |-> {} ]
Dir(files) == [ dir |-> TRUE, files |-> files ]
OutputFile(urls, whitelist) == [ urls |-> urls, whitelist |-> whitelist ]

\* DownloadResult
DownloadResult(url, failed) == [ url |-> url, error |-> failed ]

\* download_results.iter().filter(|r| r.error.is_none())
successful_downloads(results) ==
    { i \in 1..Len(results) : ~results[i].error }

\* a test for complete failure that looks at the first source only
FirstDownloadFailed(results) == results[1].error

\* successful_downloads.is_empty() (473)
AllDownloadsFailed(results) == successful_downloads(results) = {}

\* the local bindings of process_job, dropped at the end of the iteration;
\* `seen` is what the tenant store and the cache held when the skip was
\* decided (and whether they were read without error), `steps` the stages
\* run so far
NoRun ==
    [ username |-> "", current_config_hash |-> << >>,
      config_fingerprint |-> << >>, sources |-> << >>, matched |-> Null,
      download_results |-> << >>, whitelist |-> << >>,
      category_domains |-> Null, filtered_domains |-> Null,
      seen |-> [ stored |-> Null, fingerprint |-> Null, current |-> << >>,
                 cached |-> FALSE, reads |-> FALSE, find |-> FALSE,
                 lookups |-> "none" ],
      steps |-> {} ]

\* the configurations of the tenants
ConfigAB ==
    << SourceLine(<< "a" >>, Some(<< "A" >>), Null),
       SourceLine(<< "b" >>, Some(<< "b" >>), Null) >>
\* ConfigAB with the lines in the other order and the names in other case
ConfigBA ==
    << SourceLine(<< "b" >>, Some(<< "B" >>), Null),
       SourceLine(<< "a" >>, Some(<< "a" >>), Null) >>
\* ConfigAB with the lines in the other order and other names
ConfigRenamed ==
    << SourceLine(<< "b" >>, Some(<< "A" >>), Null),
       SourceLine(<< "a" >>, Some(<< "b" >>), Null) >>
ConfigA == << SourceLine(<< "a" >>, Some(<< "A" >>), Null) >>
ConfigNone == << CommentLine("c1") >>

BuildJobs == {"j1", "j2"}

Configs == { ConfigAB, ConfigBA, ConfigRenamed, ConfigA, ConfigNone }

\* whose jobs are queued: the first for alice or for the default lists
Owners == { o \in [BuildJobs -> Tenants] : o["j1"] # "bob" }

\* what the tenants have configured when the first job is queued; bob's
\* configuration varies where bob has a job
InitialConfigs(owner) ==
    { cfg \in [Tenants -> Configs] :
        /\ cfg["alice"] = ConfigAB
        /\ cfg["bob"] \in {ConfigBA, ConfigRenamed, ConfigNone}
        /\ cfg[Default] = ConfigAB
        /\ (\A j \in BuildJobs : owner[j] # "bob") => cfg["bob"] = ConfigBA }

\* alice may be disabled where another tenant's job follows hers
InitialEnabled(owner) ==
    IF owner["j1"] = "alice" /\ owner["j2"] # "alice"
    THEN BOOLEAN ELSE {TRUE}

\* the edit a tenant makes: a source is dropped from ConfigAB
Edited(cfg) == IF cfg = ConfigAB THEN ConfigA ELSE cfg

\* no process_job is running and a job is waiting
Idle ==
    /\ \A w \in Workers : pc[w] \in {"off", "check", "claim"}
    /\ \E j \in DOMAIN jobs : jobs[j].status = "queued"

(***************************************************************************)
(* The lookup of a copy source (db/user.rs): tenants are built one after    *)
(* the other, each build writing its stats, and then a tenant whose job is  *)
(* processed asks for a tenant with the fingerprint of its configuration.   *)
(***************************************************************************)
MaxBuilds == 3

InitFind ==
    /\ IdleProtocol
    /\ cache = {} /\ outputs = << >> /\ run = << >>
    /\ content = << >> /\ edited = << >>
    /\ wl = << >> /\ store = << >> /\ batch = << >> /\ ex = << >>
    /\ parsed = << >>
    /\ gen = << >>
    /\ users = [t \in Tenants |-> NewUser(ConfigAB, TheWhitelist, TRUE)]
    /\ lookup = Null

Find_Frame ==
    UNCHANGED << jobs, pc, job, current_job, shutdown, hbAlive, op, hbLost,
                 hist, failErr, perr, cache, outputs, run, content,
                 edited, wl, store, batch, ex, gen, parsed >>

\* a job of tenant t with the configuration cfg is built and completed: the
\* stats write of process_job (602-611)
Find_Build(t, cfg) ==
    /\ lookup = Null
    /\ BuildNow(users) <= MaxBuilds
    /\ users' = update_after_build(
                    [users EXCEPT ![t].blocklists = cfg], t,
                    << "all_domains" >>,
                    compute_config_hash(cfg, users[t].whitelist),
                    compute_config_fingerprint(cfg, users[t].whitelist))
    /\ lookup' = lookup
    /\ Find_Frame

\* an administrator disables or enables a named tenant
Find_SetEnabled(t, is_enabled) ==
    /\ lookup = Null
    /\ users[t].is_enabled # is_enabled
    /\ users' = [users EXCEPT ![t].is_enabled = is_enabled]
    /\ lookup' = lookup
    /\ Find_Frame

\* process_job 271-276 for a job of tenant t: the lookup with the
\* fingerprint of its configuration
Find_Lookup(t) ==
    /\ lookup = Null
    /\ LET fingerprint == compute_config_fingerprint(users[t].blocklists,
                                                     users[t].whitelist)
       IN  lookup' = Some([ fingerprint |-> fingerprint,
                           exclude_username |-> t,
                           matched |-> find_user_by_fingerprint(
                                           users, fingerprint, t) ])
    /\ users' = users
    /\ Find_Frame

NextFind ==
    \/ \E t \in Tenants, cfg \in {ConfigAB, ConfigA} : Find_Build(t, cfg)
    \/ \E t \in NamedTenants, is_enabled \in BOOLEAN :
          Find_SetEnabled(t, is_enabled)
    \/ \E t \in Tenants : Find_Lookup(t)

SpecFind == InitFind /\ [][NextFind]_vars

InitBuild ==
    /\ \E owner \in Owners :
         /\ jobs = [j \in BuildJobs |->
                      [NewJob(j) EXCEPT !.username = owner[j]]]
         /\ \E cfg \in InitialConfigs(owner),
               enabled \in InitialEnabled(owner) :
              users = [t \in Tenants |->
                         NewUser(cfg[t], TheWhitelist, t # "alice" \/ enabled)]
    /\ pc = [w \in Workers |-> IF w = "w1" THEN "check" ELSE "off"]
    /\ job = [w \in Workers |-> NoJob]
    /\ current_job = [w \in Workers |-> NoJob]
    /\ shutdown = [w \in Workers |-> FALSE]
    /\ hbAlive = [w \in Workers |-> FALSE]
    /\ op = Internal
    /\ hbLost = [w \in Workers |-> FALSE]
    /\ hist = [j \in BuildJobs |-> "queued"]
    /\ failErr = [w \in Workers |-> FALSE]
    /\ perr = [w \in Workers |-> NoError]
    /\ cache = {}
    /\ outputs = [t \in Tenants |-> NoDir]
    /\ run = [w \in Workers |-> NoRun]
    /\ content = << >>
    /\ edited = << >>
    /\ IdleLib

\* process_job 217-292: the texts are read, the hashes computed, the
\* sources parsed; then fail, skip, copy or build
B_Load(w) ==
    /\ pc[w] = "pj_load"
    /\ \E cfgOk, wlOk, hashOk, findOk \in BOOLEAN :
         LET t == jobs[job[w]].username
             config_content == users[t].blocklists
             whitelist_content ==
                 IF wlOk THEN users[t].whitelist ELSE << >>
             current_config_hash ==
                 compute_config_hash(config_content, whitelist_content)
             config_fingerprint ==
                 compute_config_fingerprint(config_content, whitelist_content)
             sources == parse_config(config_content)
             stored_hash ==
                 IF hashOk THEN get_config_hash(users, t) ELSE Null
             all_cached == check_all_cached(cache, sources)
             matched ==
                 IF findOk
                 THEN find_user_by_fingerprint(users, config_fingerprint, t)
                 ELSE Null
             locals ==
                 [ NoRun EXCEPT
                     !.username = t,
                     !.current_config_hash = current_config_hash,
                     !.config_fingerprint = config_fingerprint,
                     !.sources = sources,
                     !.seen = [ stored |-> users[t].config_hash,
                                fingerprint |-> users[t].config_fingerprint,
                                current |->
                                    compute_config_hash(users[t].blocklists,
                                                        users[t].whitelist),
                                cached |-> all_cached,
                                reads |-> wlOk /\ hashOk,
                                find |-> findOk,
                                lookups |-> IF wlOk THEN "ok"
                                            ELSE "whitelist failed" ] ]
         IN  IF ~cfgOk
             THEN /\ RepoWrite(w, "fail",
                               fail(jobs, job[w],
                                    << "Failed to load config" >>), "clear")
                  /\ run' = [run EXCEPT ![w] =
                               [NoRun EXCEPT
                                  !.username = t,
                                  !.seen.lookups = "blocklists failed"]]
             ELSE IF sources = << >>
             THEN /\ RepoWrite(w, "fail",
                               fail(jobs, job[w],
                                    << "No valid sources in config" >>),
                               "clear")
                  /\ run' = [run EXCEPT ![w] = locals]
             ELSE IF NoChangesDetected(stored_hash, current_config_hash,
                                       all_cached)
             THEN /\ RepoWrite(w, "skip", skip(jobs, job[w], NoChanges),
                               "clear")
                  /\ run' = [run EXCEPT ![w] = locals]
             ELSE IF matched # Null
             THEN /\ Goto(w, "pj_copy")
                  /\ run' = [run EXCEPT ![w] =
                               [locals EXCEPT !.matched = matched]]
             ELSE /\ Goto(w, "pj_init_progress")
                  /\ run' = [run EXCEPT ![w] = locals]
    /\ UNCHANGED << users, cache, outputs, content, edited, libVars >>

\* a copy whose failure is returned from process_job
B_CopyAborts(w) ==
    /\ pc[w] = "pj_copy"
    /\ Raise(w, DbError)
    /\ run' = [run EXCEPT ![w].steps = @ \cup {"copy"}]
    /\ UNCHANGED << users, cache, outputs, content, edited, libVars >>

\* copy_output_files (128-207) with the result of the matched tenant's last
\* completed job (283-288): the target directory is created and emptied,
\* then the files of the source directory are copied one by one
B_Copy(w) ==
    /\ pc[w] = "pj_copy"
    /\ LET t == run[w].username
           m == run[w].matched[1].username
       IN  \E outcome \in {"copied", "no_target", "emptied", "partial"} :
             CASE outcome = "copied" ->
                    /\ outputs[m].dir
                    /\ outputs' = [outputs EXCEPT ![t] = Dir(outputs[m].files)]
                    /\ Goto(w, "pj_copy_progress")
               [] outcome = "no_target" ->
                    /\ UNCHANGED outputs
                    /\ Goto(w, "pj_init_progress")
               [] outcome = "emptied" ->
                    /\ outputs' = [outputs EXCEPT ![t] = Dir({})]
                    /\ Goto(w, "pj_init_progress")
               [] outcome = "partial" ->
                    /\ outputs[m].dir
                    /\ outputs[m].files # {}
                    /\ outputs' = [outputs EXCEPT ![t] = Dir(outputs[m].files)]
                    /\ Goto(w, "pj_init_progress")
    /\ run' = [run EXCEPT ![w].steps =
                 @ \cup (IF pc'[w] = "pj_copy_progress"
                         THEN {"copy", "copied"} ELSE {"copy"})]
    /\ UNCHANGED << users, cache, content, edited, libVars >>

\* 317-408: the copied result, complete, then the stats write, whose error
\* is only logged
B_CopyComplete(w) ==
    /\ pc[w] = "pj_copy_complete"
    /\ LET t == run[w].username
           m == run[w].matched[1]
           lists == IF m.lists # << >> THEN m.lists
                    ELSE IF outputs[t].files # {} THEN << "all_domains" >>
                    ELSE << >>
           Stats == CompletedResults(jobs, m.username)
       IN  /\ \E source_stats \in {Null} \cup { Some(r) : r \in Stats } :
                RepoWrite(w, "complete",
                          complete(jobs, job[w],
                                   IF source_stats = Null
                                   THEN JobResult_copied_from_user(
                                            m.username, 0, 0)
                                   ELSE JobResult_copied_from_user(
                                            m.username,
                                            source_stats[1].sources_processed,
                                            source_stats[1].sources_failed)),
                          "clear")
           /\ \E statsOk \in BOOLEAN :
                users' = IF op'.ret = "ok" /\ statsOk
                         THEN update_after_build(users, t, lists,
                                  run[w].current_config_hash,
                                  run[w].config_fingerprint)
                         ELSE users
    /\ UNCHANGED << cache, outputs, run, content, edited, libVars >>

\* download_stage (626-664): a source with a valid cache entry is a cache
\* hit; another one is fetched and, if that succeeds, cached; one result per
\* source, in the order of the sources; then the progress write
B_Download(w) ==
    /\ pc[w] = "pj_download"
    /\ LET sources == run[w].sources
           Missing == { sources[i].url : i \in 1..Len(sources) } \ cache
       IN  \E fetched \in SUBSET Missing :
             /\ cache' = cache \cup fetched
             /\ run' = [run EXCEPT
                          ![w].download_results =
                              [i \in 1..Len(sources) |->
                                 DownloadResult(sources[i].url,
                                     sources[i].url \notin cache \cup fetched)],
                          ![w].steps = @ \cup {"download"}]
    /\ RepoWrite(w, "update_progress",
                 update_progress(jobs, job[w], "downloading"), "pj_downloaded")
    /\ UNCHANGED << users, outputs, content, edited, libVars >>

\* CategoryDomains (26-56): by_category maps a category (Null for the
\* sources without one) to the domains of its sources.
\* a test for a map without a bucket
HasNoBucket(category_domains) == DOMAIN category_domains = {}

\* CategoryDomains::is_empty
is_empty(category_domains) ==
    \A c \in DOMAIN category_domains : category_domains[c] = {}

\* whitelist_stage, 768-777: every category is filtered on its own, and a
\* category nothing remains of is left out
filter_categories(category_domains, whitelist_content) ==
    LET whitelist == from_content(whitelist_content)
        Kept == { c \in DOMAIN category_domains :
                    filter_domains(whitelist, category_domains[c]) # {} }
    IN  [c \in Kept |-> filter_domains(whitelist, category_domains[c])]

\* what the extractor finds in the sources downloaded: nothing, a domain of
\* the whitelist, or that domain and another
ExtractedSets == { {}, { << "a" >> }, { << "a" >>, << "b" >> } }

\* 467-499: every download failed: fail; extraction_stage; nothing
\* extracted: fail
B_CheckExtracted(w) ==
    /\ pc[w] = "pj_downloaded"
    /\ IF AllDownloadsFailed(run[w].download_results)
       THEN /\ RepoWrite(w, "fail",
                         fail(jobs, job[w],
                              << "All source downloads failed" >>), "clear")
            /\ UNCHANGED run
       ELSE /\ \E domains \in ExtractedSets :
                 LET category_domains == [c \in {Null} |-> domains]
                 IN  /\ IF is_empty(category_domains)
                        THEN RepoWrite(w, "fail",
                                       fail(jobs, job[w],
                                            << "No domains extracted" >>),
                                       "clear")
                        ELSE Goto(w, "pj_whitelist")
                     /\ run' = [run EXCEPT
                                  ![w].category_domains =
                                      Some(category_domains),
                                  ![w].steps = @ \cup {"extract"}]
    /\ UNCHANGED << users, cache, outputs, content, edited, libVars >>

\* whitelist_stage (761-789): the whitelist is read again (`?`), the domains
\* are filtered, progress write
B_WhitelistFilter(w) ==
    /\ pc[w] = "pj_filter"
    /\ \E loaded \in BOOLEAN :
         IF loaded
         THEN /\ RepoWrite(w, "update_progress",
                           update_progress(jobs, job[w], "whitelist"),
                           "pj_generation")
              /\ run' = [run EXCEPT
                           ![w].whitelist = users[run[w].username].whitelist,
                           ![w].filtered_domains =
                               Some(filter_categories(
                                      run[w].category_domains[1],
                                      users[run[w].username].whitelist)),
                           ![w].steps = @ \cup {"whitelist"}]
         ELSE /\ Raise(w, WhitelistError)
              /\ UNCHANGED run
    /\ UNCHANGED << users, cache, outputs, content, edited, libVars >>

\* OutputGenerator::generate_all_categories / generate_all: the files of the
\* tenant's output directory are written from the filtered domains
generate_all(outs, t, results, whitelist) ==
    [outs EXCEPT ![t] =
       Dir({ OutputFile({ results[i].url : i \in successful_downloads(results) },
                        patterns_as_strings(whitelist)) })]

\* generation_stage (809-859): generator calls (`?`), to_completed, write
B_Generate(w) ==
    /\ pc[w] = "pj_generate"
    /\ \E generated \in BOOLEAN :
         IF generated
         THEN /\ outputs' = generate_all(outputs, run[w].username,
                                         run[w].download_results,
                                         run[w].whitelist)
              /\ RepoWrite(w, "update_progress",
                           update_progress(jobs, job[w], "completed"),
                           "pj_complete")
         ELSE /\ \E written \in BOOLEAN :
                   outputs' = IF written
                              THEN generate_all(outputs, run[w].username,
                                                run[w].download_results,
                                                run[w].whitelist)
                              ELSE outputs
              /\ Raise(w, GeneratorError)
    /\ run' = [run EXCEPT ![w].steps = @ \cup {"generate"}]
    /\ UNCHANGED << users, cache, content, edited, libVars >>

\* 517-612: the counts of the result, complete, then the stats write, whose
\* error is only logged
B_Complete(w) ==
    /\ pc[w] = "pj_complete"
    /\ LET results == run[w].download_results
           sources_processed == Cardinality(successful_downloads(results))
           sources_failed ==
               Cardinality({ i \in 1..Len(results) : results[i].error })
       IN  /\ RepoWrite(w, "complete",
                        complete(jobs, job[w],
                                 JobResult_success(sources_processed,
                                                   sources_failed)),
                        "clear")
           /\ \E statsOk \in BOOLEAN :
                users' = IF op'.ret = "ok" /\ statsOk
                         THEN update_after_build(users, run[w].username,
                                  << "all_domains" >>,
                                  run[w].current_config_hash,
                                  run[w].config_fingerprint)
                         ELSE users
    /\ UNCHANGED << cache, outputs, run, content, edited, libVars >>

\* between two jobs the tenant saves another blocklist configuration
EditConfig(t) ==
    /\ Idle
    /\ Edited(users[t].blocklists) # users[t].blocklists
    /\ users' = [users EXCEPT ![t].blocklists = Edited(@)]
    /\ op' = Internal
    /\ UNCHANGED << jobs, pc, job, current_job, shutdown, hbAlive, hbLost,
                    hist, failErr, perr, cache, outputs, run, content,
                    edited, libVars >>

\* the cache entry of a URL passes the age limit (cache.rs 221-236)
CacheExpire(url) ==
    /\ Idle
    /\ url \in cache
    /\ cache' = cache \ {url}
    /\ op' = Internal
    /\ UNCHANGED << jobs, pc, job, current_job, shutdown, hbAlive, hbLost,
                    hist, failErr, perr, users, outputs, run, content,
                    edited, libVars >>

\* *current = None, end of the iteration: the bindings of process_job are
\* gone
B_ClearCurrent(w) ==
    /\ pc[w] = "clear"
    /\ current_job' = [current_job EXCEPT ![w] = NoJob]
    /\ job' = [job EXCEPT ![w] = NoJob]
    /\ pc' = [pc EXCEPT ![w] = "check"]
    /\ hbLost' = [hbLost EXCEPT ![w] = FALSE]
    /\ failErr' = [failErr EXCEPT ![w] = FALSE]
    /\ perr' = [perr EXCEPT ![w] = NoError]
    /\ run' = [run EXCEPT ![w] = NoRun]
    /\ op' = Internal
    /\ UNCHANGED << jobs, shutdown, hbAlive, hist, users, cache, outputs,
                    content, edited, libVars >>

BuildStep(w) ==
    \/ CheckShutdown(w)
    \/ ClaimJob(w)
    \/ StoreCurrent(w)
    \/ Construct(w)
    \/ B_Load(w)
    \/ B_Copy(w)
    \/ PJ_CopyProgress(w)
    \/ B_CopyComplete(w)
    \/ PJ_InitProgress(w)
    \/ B_Download(w)
    \/ B_CheckExtracted(w)
    \/ PJ_WhitelistStart(w)
    \/ B_WhitelistFilter(w)
    \/ PJ_GenerationStart(w)
    \/ B_Generate(w)
    \/ B_Complete(w)
    \/ MarkFailed(w)
    \/ B_ClearCurrent(w)

NextBuild ==
    \/ \E w \in Workers : BuildStep(w)
    \/ \E t \in NamedTenants : EditConfig(t)
    \/ \E url \in cache : CacheExpire(url)

SpecBuild == InitBuild /\ [][NextBuild]_vars

(***************************************************************************)
(* Properties of the build.                                                *)
(***************************************************************************)
\* worker w has run process_job on job j, which has returned (and, after an
\* error, the fail write was made): the state at the end of the iteration
Ended(w, j) ==
    /\ pc[w] = "clear"
    /\ job[w] = j
    /\ run[w].username = jobs[j].username

\* the stored config_hash exists and equals the hash of the configuration,
\* and every source had a valid cache entry, when the skip was decided
Unchanged(w) ==
    /\ run[w].seen.stored = Some(run[w].seen.current)
    /\ run[w].seen.cached

BuiltBefore(w, t) ==
    /\ jobs["j1"].username = t
    /\ jobs["j1"].status = "completed"
    /\ jobs["j1"].result.copied_from = Null
    /\ run[w].seen.fingerprint =
          Some(compute_config_fingerprint(users[t].blocklists,
                                          users[t].whitelist))
    /\ run[w].seen.cached

C17_SkipTouchesNothing ==
    /\ [](\A w \in Workers, j \in Docs :
            (Ended(w, j) /\ jobs[j].status = "skipped") =>
               /\ run[w].steps = {}
               /\ op = Call("skip", w, j, "ok"))
    /\ [][ \A w \in Workers :
             (op'.op = "skip" /\ op'.by = w) =>
                /\ pc[w] = "pj_load"
                /\ op'.job = job[w]
                /\ outputs' = outputs
                /\ cache' = cache
                /\ users' = users
                /\ \A k \in Docs \ {job[w]} : jobs'[k] = jobs[k]
          ]_vars

\* a job of a tenant with output files and another queued job was skipped
C17_Witness ==
    \E w \in Workers :
       /\ Ended(w, "j2") /\ jobs["j2"].status = "skipped"
       /\ outputs[jobs["j2"].username].files # {}
       /\ cache # {}

\* the stages of a normal build
BuildStages == {"download", "extract", "whitelist", "generate"}

\* the source URLs a configuration lists
UrlsOf(text) ==
    { parse_config(text)[i].url : i \in 1..Len(parse_config(text)) }

\* the sources of a configuration with name and category in lower case
SourcesIgnoringCase(text) ==
    { << parse_config(text)[i].url, SourceStr(parse_config(text)[i]) >> :
         i \in 1..Len(parse_config(text)) }

\* j1 was a normal build for tenant a that completed; j2 is for another
\* tenant b, whose configuration lists the same source URLs and the same
\* whitelist; process_job has returned for j2
SameUrlsAfterBuild(w, a, b) ==
    /\ Ended(w, "j2")
    /\ jobs["j1"].username = a /\ jobs["j2"].username = b /\ a # b
    /\ jobs["j1"].status = "completed"
    /\ jobs["j1"].result.copied_from = Null
    /\ UrlsOf(users[a].blocklists) = UrlsOf(users[b].blocklists)
    /\ UrlsOf(users[b].blocklists) # {}
    /\ users[a].whitelist = users[b].whitelist

\* j2 ended completed as a copy of a's outputs, without a stage of a normal
\* build
CopiedFrom(w, a, b) ==
    /\ jobs["j2"].status = "completed"
    /\ jobs["j2"].result.copied_from = Some(a)
    /\ outputs[b] = outputs[a]
    /\ run[w].steps \cap BuildStages = {}

FailedAllDownloads(j) ==
    /\ jobs[j].status = "failed"
    /\ jobs[j].result.errors = << "All source downloads failed" >>

C19_FingerprintStable ==
    compute_config_fingerprint(edited, TheWhitelist)
        = compute_config_fingerprint(content, TheWhitelist)

(***************************************************************************)
(* Claims about the whitelist matcher.                                     *)
(***************************************************************************)
\* the line is a regex pattern whose expression does not compile
Offending(line) ==
    LET pattern == StripComment(line)
    IN  /\ PatternType(pattern) = "regex"
        /\ ~Compiles(SubSeq(pattern, 2, Len(pattern) - 1))

\* the pattern of the line, compiled on its own, whitelists the domain
AppliedAlone(line, domain) ==
    is_whitelisted(from_content(<< line >>), domain)

\* C24: an invalid regex in the whitelist drops the offending pattern only:
\* a domain that another pattern of the same whitelist matches (exact,
\* subdomain, valid wildcard or valid regex) is whitelisted by
\* is_whitelisted and removed by filter_domains.
C24_OnlyOffendingDropped ==
    (wl # << >> /\ \E k \in 1..Len(wl.content) : Offending(wl.content[k]))
    => \A i \in 1..Len(wl.content) :
          ~Offending(wl.content[i])
          => /\ wl.asked # Null
                => (AppliedAlone(wl.content[i], wl.asked[1].domain)
                    => wl.asked[1].whitelisted)
             /\ wl.remaining # Null
                => \A d \in wl.remaining[1].domains :
                      AppliedAlone(wl.content[i], d)
                      => d \notin wl.remaining[1].remaining

(***************************************************************************)
(* Claims about the source cache.                                          *)
(***************************************************************************)
\* the large objects some metadata document references
Referenced ==
    { store.meta[u].gridfs_id[1] :
        u \in { x \in UrlHashes : store.meta[x] # Null
                                  /\ store.meta[x].gridfs_id # Null } }

\* C25: in every reachable state of the cache, under any interleaving of
\* store, get_content, update_domain_count and cleanup_stale, every handle
\* recorded in a metadata document resolves to a stored object.
C25_HandlesResolve == store # << >> => Referenced \subseteq store.objects

\* C26: a large object that no metadata document references does not stay
\* stored forever: it is deleted (by cleanup_stale) or referenced later on.
C26_LeakSwept ==
    \A id \in ObjectIds :
       (store # << >> /\ id \in store.objects \ Referenced)
       ~> ~(id \in store.objects \ Referenced)

(***************************************************************************)
(* Claims about the downloader.                                            *)
(***************************************************************************)
\* C28: download_sources returns exactly one result per input source, and
\* the result at index i is the result of the source at index i, in
\* whatever order the downloads finish.
C28_ResultsInOrder ==
    batch # << >>
    => /\ Len(batch.results) <= Len(batch.sources)
       /\ \A i \in 1..Len(batch.results) :
             batch.results[i].source = batch.sources[i]
       /\ batch.returned => Len(batch.results) = Len(batch.sources)

\* a batch has returned whose second download finished before its first
C28_Witness ==
    /\ batch # << >>
    /\ batch.returned
    /\ Len(batch.sources) > 1
    /\ \E i, k \in 1..Len(batch.finished) :
          i < k /\ batch.finished[i] > batch.finished[k]

\* at no moment more downloads are in flight than max_concurrent_downloads
InFlightCapped ==
    batch # << >> => Cardinality(InFlight) <= batch.max_concurrent

\* every source of a batch that has returned was downloaded or failed
AllSourcesDone ==
    (batch # << >> /\ batch.returned)
    => /\ Len(batch.results) = Len(batch.sources)
       /\ batch.queue = << >>

FinishedDownloads ==
    { batch.queue[k].output[1] : k \in YieldAny }
    \cup { batch.results[i] : i \in 1..Len(batch.results) }

\* C30: a source whose body is exactly 100 MiB is accepted (its result has
\* no error, unless the file system failed), and a source whose body is
\* 100 MiB + 1 byte is rejected with an error on the result of that source.
C30_SizeLimit ==
    batch # << >>
    => \A r \in FinishedDownloads :
          /\ r.body = Some(104857600)
             => r.error \in {Null, Some("io error")}
          /\ r.body = Some(104857601) => r.error # Null

(***************************************************************************)
(* Claims about the errors of the pipeline.                                *)
(***************************************************************************)
\* the job has the result of a failure with "No domains extracted"
FailedNoDomains(j) ==
    /\ jobs[j].status = "failed"
    /\ jobs[j].result.errors = << "No domains extracted" >>

\* the category map holds no domain
NoDomainIn(category_domains) ==
    UNION { category_domains[c] : c \in DOMAIN category_domains } = {}

\* the whitelist stage of worker w has run and has left no domain in any
\* category
WhitelistRemovedAll(w) ==
    /\ "whitelist" \in run[w].steps
    /\ run[w].filtered_domains # Null
    /\ NoDomainIn(run[w].filtered_domains[1])

\* C21 as stated: when the whitelist removes every extracted domain, the
\* job ends in status failed with error "No domains extracted".
C21_Original ==
    \A w \in Workers, j \in Docs :
       (Ended(w, j) /\ WhitelistRemovedAll(w)) => FailedNoDomains(j)

\* C21: the job is failed with "No domains extracted" exactly when the
\* extraction stage has found no domain in any category, a check made
\* before the whitelist stage; when the whitelist removes every extracted
\* domain the generation stage runs on the empty category map and the job
\* is not failed with that error: it ends completed, unless process_job
\* returns an error of the generator or of a database write.
C21_EmptyCheckBeforeWhitelist ==
    \A w \in Workers, j \in Docs :
       Ended(w, j) =>
          /\ ("extract" \in run[w].steps /\ perr[w] = NoError)
             => (FailedNoDomains(j)
                 <=> NoDomainIn(run[w].category_domains[1]))
          /\ FailedNoDomains(j)
             => /\ "whitelist" \notin run[w].steps
                /\ NoDomainIn(run[w].category_domains[1])
          /\ WhitelistRemovedAll(w)
             => /\ ~FailedNoDomains(j)
                /\ perr[w] = NoError
                   => /\ jobs[j].status = "completed"
                      /\ "generate" \in run[w].steps

\* a job whose domains the whitelist removed, all of them, has ended
\* completed
C21_Witness ==
    \E w \in Workers, j \in Docs :
       /\ Ended(w, j) /\ WhitelistRemovedAll(w)
       /\ run[w].category_domains[1][Null] = { << "a" >> }
       /\ jobs[j].status = "completed"

\* C22: when the blocklists lookup or the whitelist lookup of the config
\* load fails, the job is marked failed and processing stops: the job is
\* not skipped, not copied, and no download or generation is made for it.
C22_LoadFailureStops ==
    \A w \in Workers :
       (job[w] # NoJob
        /\ run[w].seen.lookups \in {"blocklists failed", "whitelist failed"})
       => /\ pc[w] \in {"mark_failed", "clear"}
          /\ run[w].steps = {}
          /\ jobs[job[w]].status \notin {"skipped", "completed"}
          /\ (pc[w] = "clear" /\ perr[w] = NoError)
             => jobs[job[w]].status = "failed"

\* worker w has just had an Err from a progress write
ProgressWriteFailed(w) ==
    /\ op'.op = "update_progress"
    /\ op'.by = w
    /\ op'.ret = "err"

\* C23 as stated: a database write failure while persisting a progress
\* update is only logged: the pipeline goes on to its next step, and the
\* failure does not send the job to status failed.
C23_Original ==
    [][\A w \in Workers :
          ProgressWriteFailed(w)
          => /\ pc'[w] # "mark_failed"
             /\ perr'[w] = NoError]_vars

\* C23: a database write failure while persisting a progress update
\* propagates: process_job returns the error at once, no later stage is
\* run, and the worker marks the job failed with the error's text (the job
\* ends failed unless that write fails too).
C23_ProgressWriteAborts ==
    /\ [][\A w \in Workers :
             ProgressWriteFailed(w)
             => /\ pc'[w] = "mark_failed"
                /\ perr'[w] = DbError
                /\ jobs' = jobs]_vars
    /\ [](\A w \in Workers :
             (pc[w] = "clear" /\ job[w] # NoJob /\ perr[w] = DbError
              /\ ~failErr[w])
             => /\ jobs[job[w]].status = "failed"
                /\ jobs[job[w]].result.errors = << DbError >>)

\* a progress write has just failed and process_job has returned the error
C23_Witness ==
    \E w \in Workers :
       /\ op = Call("update_progress", w, job[w], "err")
       /\ pc[w] = "mark_failed"
       /\ perr[w] = DbError
       /\ jobs[job[w]].status = "processing"

(***************************************************************************)
(* The stats write of a build                                              *)
(***************************************************************************)
\* the step wrote one of the three build fields of tenant t
StatsChanged(t) ==
    \/ users'[t].last_build_at # users[t].last_build_at
    \/ users'[t].config_hash # users[t].config_hash
    \/ users'[t].config_fingerprint # users[t].config_fingerprint

\* a worker whose build of tenant t the step's fingerprint and stamp are of
StampedBy(w, t) ==
    /\ run[w].username = t
    /\ users'[t].last_build_at = Some(BuildNow(users))
    /\ users'[t].config_fingerprint = Some(run[w].config_fingerprint)

\* C27 as stated: every step that writes one of config_hash,
\* config_fingerprint and last_build_at of a tenant, a named one or
\* __default__, writes all three, with the hash and the fingerprint of the
\* build that stamps last_build_at.
C27_Original ==
    [][\A t \in Tenants :
         StatsChanged(t) =>
            \E w \in Workers :
               /\ StampedBy(w, t)
               /\ users'[t].config_hash = Some(run[w].current_config_hash)]_vars

\* C27: every step that writes one of the three build fields of a tenant
\* writes the fingerprint and the last_build_at stamp of one build together;
\* for a named tenant the same step stores that build's config_hash, for
\* __default__ no config_hash is ever stored.
C27_StatsWrittenTogether ==
    [][\A t \in Tenants :
         /\ StatsChanged(t) =>
               \E w \in Workers :
                  /\ StampedBy(w, t)
                  /\ t # Default =>
                        users'[t].config_hash
                           = Some(run[w].current_config_hash)
         /\ t = Default => users'[t].config_hash = Null]_vars

\* a build of a named tenant and a build of __default__ have both been
\* stamped
C27_Witness ==
    /\ users[Default].last_build_at # Null
    /\ users[Default].config_fingerprint # Null
    /\ \E t \in NamedTenants :
          /\ users[t].last_build_at # Null
          /\ users[t].config_hash # Null

(***************************************************************************)
(* Claims about the whitelist filter.                                      *)
(***************************************************************************)
\* C31: filter_domains(X) keeps a subset of X, counts as removed the
\* domains of X it did not keep, keeps no domain that is_whitelisted
\* accepts and removes none that it rejects: kept and removed partition X.
C31_FilterPartitions ==
    (wl # << >> /\ wl.remaining # Null)
    => LET X == wl.remaining[1].domains
           kept == wl.remaining[1].remaining
           removed == wl.remaining[1].removed
       IN  /\ kept \subseteq X
           /\ removed = Cardinality(X) - Cardinality(kept)
           /\ \A d \in kept : ~is_whitelisted(wl.manager[1], d)
           /\ \A d \in X \ kept : is_whitelisted(wl.manager[1], d)

\* a filter of all the domains has kept some and removed some
C31_Witness ==
    /\ wl # << >> /\ wl.remaining # Null
    /\ wl.remaining[1].domains = Domains
    /\ wl.remaining[1].remaining # {}
    /\ wl.remaining[1].removed > 0

\* the pattern of the whitelist line, read by the rules of the whitelist
\* language, accepts the domain: an exact pattern the domain itself, a
\* subdomain pattern @@d the domain d and every domain that ends with
\* "." + d, a wildcard or a regex pattern the domains it matches
PatternAccepts(line, domain) ==
    LET pattern == StripComment(line)
        kind == PatternType(pattern)
        d == to_lowercase(trim_start_matches(pattern, << "@", "@" >>))
        re == SubSeq(pattern, 2, Len(pattern) - 1)
    IN  /\ pattern # << >>
        /\ CASE kind = "exact" -> domain = to_lowercase(pattern)
              [] kind = "subdomain" ->
                    domain = d \/ ends_with(domain, << "." >> \o d)
              [] kind = "wildcard" -> is_match(WildcardRegex(pattern), domain)
              [] OTHER -> Compiles(re) /\ is_match(re, domain)

\* C32: is_whitelisted(domain) is true exactly when some pattern of the
\* whitelist accepts the domain: it is in the exact set, or it is d or ends
\* with "." + d for a subdomain pattern @@d, or a wildcard or regex pattern
\* matches it.
C32_WhitelistedIff ==
    (wl # << >> /\ wl.asked # Null)
    => (wl.asked[1].whitelisted
        <=> \E i \in 1..Len(wl.content) :
               PatternAccepts(wl.content[i], wl.asked[1].domain))

(***************************************************************************)
(* Claims about the extractor.                                             *)
(***************************************************************************)
\* the answer for an adblock rule whose domain is extracted
Extracted(line, domain) ==
    Some([ domain |-> to_lowercase(domain), raw_adblock_rule |-> Some(line),
           format |-> "adblock" ])

\* an option of the comma separated list starts with one of the seven
\* names, compared in lower case
OptionStartsWithSkipModifier(modifiers) ==
    \E j \in 0..Len(modifiers) :
       /\ j = 0 \/ modifiers[j] = ","
       /\ \E name \in SkipModifiers :
             starts_with(
                 to_lowercase(SubSeq(modifiers, j + 1, Len(modifiers))), name)

\* one of the seven names occurs somewhere in the modifiers, compared in
\* lower case
HoldsSkipModifier(modifiers) ==
    \E name \in SkipModifiers : contains_str(to_lowercase(modifiers), name)

\* C33 as stated: for an adblock rule ||domain^$modifiers the extractor
\* yields no domain if the modifiers contain one of the seven names in any
\* case, and otherwise the lowercased domain with the line as raw rule.
C33_Original ==
    (ex # << >> /\ ex.rule # Null /\ ex.result # Null)
    => ex.result[1] = IF HoldsSkipModifier(ex.rule[1].modifiers)
                   THEN Null
                   ELSE Extracted(ex.line, ex.rule[1].domain)

\* C33: for an adblock rule ||domain^$modifiers the extractor yields no
\* domain if the line holds a cosmetic filter marker or if an option of
\* the modifier list starts with one of the seven names in any case, and
\* otherwise the lowercased domain with the line as raw rule.
C33_SkipByOption ==
    (ex # << >> /\ ex.rule # Null /\ ex.result # Null)
    => ex.result[1] = IF \/ IsCssFilter(ex.line)
                      \/ OptionStartsWithSkipModifier(ex.rule[1].modifiers)
                   THEN Null
                   ELSE Extracted(ex.line, ex.rule[1].domain)

\* the domain of a rule whose only option has one of the names as its
\* value has been extracted
C33_Witness ==
    /\ ex # << >> /\ ex.rule # Null /\ ex.result # Null
    /\ ex.rule[1].modifiers = << "x", "=", "c", "s", "p" >>
    /\ ex.result[1] = Extracted(ex.line, ex.rule[1].domain)

(***************************************************************************)
(* Claims about the lookup of a copy source.                               *)
(***************************************************************************)
\* the records that match the fingerprint: enabled named tenants with
\* lists and a build stamp, other than the requester, and the __default__
\* record when the requester is not __default__
Candidates(fingerprint, exclude_username) ==
    { t \in Tenants \ {exclude_username} :
        /\ users[t].config_fingerprint = Some(fingerprint)
        /\ users[t].last_build_at # Null
        /\ t # Default => users[t].lists # << >> /\ users[t].is_enabled }

\* C34: the copy source chosen is the candidate with the most recent
\* last_build_at among all the records that match the fingerprint, the
\* __default__ record among them; none is chosen only when none matches,
\* and the requester is never chosen.
C34_MostRecentChosen ==
    lookup # Null
    => LET f == lookup[1]
           C == Candidates(f.fingerprint, f.exclude_username)
       IN  IF C = {} THEN f.matched = Null
           ELSE /\ f.matched # Null
                /\ f.matched[1].username \in C
                /\ \A t \in C :
                      users[t].last_build_at[1]
                         <= users[f.matched[1].username].last_build_at[1]

(***************************************************************************)
(* Claims about a failed copy.                                             *)
(***************************************************************************)
\* copy_output_files of worker w has returned an error
CopyFailed(w) == "copy" \in run[w].steps /\ "copied" \notin run[w].steps

\* C35: when copying the matched tenant's files fails, the copy path
\* writes nothing to the job and returns no error: processing goes on with
\* the normal build, and a job that ends completed has run the download,
\* extraction, whitelist and generation stages and carries a result that
\* is not a copy; the job is not skipped.
C35_CopyFailureFallsThrough ==
    /\ [][\A w \in Workers :
             (pc[w] = "pj_copy" /\ pc'[w] \notin {"pj_copy", "pj_copy_progress"})
             => /\ pc'[w] = "pj_init_progress"
                /\ jobs' = jobs
                /\ perr'[w] = NoError]_vars
    /\ [](\A w \in Workers, j \in DOMAIN jobs :
             (Ended(w, j) /\ CopyFailed(w))
             => /\ jobs[j].status # "skipped"
                /\ jobs[j].status = "completed"
                   => /\ jobs[j].result.copied_from = Null
                      /\ {"download", "extract", "whitelist", "generate"}
                            \subseteq run[w].steps)

\* a job whose copy failed has ended completed by a normal build
C35_Witness ==
    \E w \in Workers, j \in DOMAIN jobs :
       /\ Ended(w, j) /\ CopyFailed(w)
       /\ jobs[j].status = "completed"
       /\ "generate" \in run[w].steps

(***************************************************************************)
(* Claims about the progress stage.                                        *)
(***************************************************************************)
\* the order of the stages: queue < downloading < whitelist < generation
\* < completed
StageRank(stage) ==
    CASE stage = "queue" -> 0
      [] stage = "downloading" -> 1
      [] stage = "whitelist" -> 2
      [] stage = "generation" -> 3
      [] stage = "completed" -> 4

\* the step is a progress write of worker w that reached the document
ProgressWritten(w) ==
    /\ op'.op = "update_progress"
    /\ op'.by = w
    /\ op'.ret = "ok"

\* the stage the processing at position p has persisted last ("queue", the
\* stage of the queued document, before its first progress write)
PersistedAt(p) ==
    CASE p \in {"pj_download", "pj_downloaded", "pj_whitelist"} -> "downloading"
      [] p \in {"pj_filter", "pj_generation"} -> "whitelist"
      [] p = "pj_generate" -> "generation"
      [] p \in {"pj_copy_complete", "pj_complete"} -> "completed"
      [] OTHER -> "queue"

InProcessJob(p) ==
    p \in {"pj_load", "pj_copy_progress", "pj_copy_complete",
           "pj_init_progress", "pj_download", "pj_downloaded", "pj_whitelist",
           "pj_filter", "pj_generation", "pj_generate", "pj_complete"}

\* C36: within one processing of a job the stages persisted by its
\* progress writes are non-decreasing in the order queue < downloading <
\* whitelist < generation < completed: every progress write persists a
\* stage that is not earlier than the one the processing persisted last
\* (which the steps between two writes leave as it is).
C36_StagesNonDecreasing ==
    [][\A w \in Workers :
         /\ ProgressWritten(w)
            => /\ InProcessJob(pc[w]) /\ InProcessJob(pc'[w])
               /\ StageRank(PersistedAt(pc[w]))
                     <= StageRank(jobs'[op'.job].progress)
               /\ PersistedAt(pc'[w]) = jobs'[op'.job].progress
         /\ (~ProgressWritten(w) /\ InProcessJob(pc[w])
              /\ InProcessJob(pc'[w]))
            => PersistedAt(pc'[w]) = PersistedAt(pc[w])]_vars

\* a processing has persisted generation after whitelist after downloading
C36_Witness ==
    \E w \in Workers :
       /\ pc[w] = "pj_generate"
       /\ op = Call("update_progress", w, job[w], "ok")
       /\ jobs[job[w]].progress = "generation"

(***************************************************************************)
(* Claims about the generation stage.                                      *)
(***************************************************************************)
\* the domains of every bucket of the filtered map but the nsfw bucket
AllButNsfw ==
    UNION { gen.category_domains[c] :
              c \in DOMAIN gen.category_domains \ { Some("nsfw") } }

\* C37: the combined all_domains list is the union of the filtered domains
\* of every category bucket, the uncategorized one among them, except the
\* bucket of category nsfw, and unique_domains of the result is the size
\* of this set.
C37_AllDomainsButNsfw ==
    (gen # << >> /\ gen.unique_domains # Null)
    => /\ Range(gen.all_sorted[1]) = AllButNsfw
       /\ gen.unique_domains[1] = Cardinality(AllButNsfw)

(***************************************************************************)
(* Claims about the heartbeat of the job in flight.                        *)
(***************************************************************************)
\* worker w is inside process_job for a job it owns
RunsOwnJob(w) ==
    /\ InProcessJob(pc[w])
    /\ job[w] # NoJob
    /\ HeartbeatFilter(jobs, job[w], w)

\* this step is a heartbeat call of the task of w with the given outcome
HeartbeatSent(w, outcomes) ==
    \E j \in DOMAIN jobs, r \in outcomes : op' = Call("heartbeat", w, j, r)

\* this step is a tick of the heartbeat task of w that acts: it sends a
\* heartbeat or leaves the loop
HeartbeatTaskTick(w) ==
    /\ hbAlive[w]
    /\ \/ HeartbeatSent(w, {"true", "false", "err"})
       \/ ~hbAlive'[w]

\* C38 as stated: while a worker runs process_job for a job it owns, every
\* tick of its heartbeat task refreshes heartbeat_at of that job, also after
\* the shutdown flag has been set (a heartbeat call that the database fails
\* is left aside).
C38_Original ==
    [][\A w \in Workers :
         (RunsOwnJob(w) /\ HeartbeatTaskTick(w) /\ ~HeartbeatSent(w, {"err"}))
         => jobs'[job[w]].heartbeat_at = Some(Now)]_vars

\* C38: while a worker runs process_job for a job it owns and its shutdown
\* flag is not set, every tick of its heartbeat task whose heartbeat call
\* does not fail refreshes heartbeat_at of that job and nothing else of it;
\* a tick after the flag has been set ends the task, and from the moment
\* the flag is set the task sends no heartbeat, so the job in flight is
\* completed without one.
C38_HeartbeatUntilShutdown ==
    [][\A w \in Workers :
         /\ (RunsOwnJob(w) /\ ~shutdown[w] /\ HeartbeatSent(w, {"true", "false"}))
            => /\ jobs'[job[w]] = [jobs[job[w]] EXCEPT !.heartbeat_at = Some(Now)]
               /\ hbAlive'[w]
         /\ (RunsOwnJob(w) /\ ~shutdown[w] /\ HeartbeatTaskTick(w))
            => HeartbeatSent(w, {"true", "false", "err"})
         /\ shutdown[w] => ~HeartbeatSent(w, {"true", "false", "err"})
         /\ (shutdown[w] /\ HeartbeatTaskTick(w))
            => (~hbAlive'[w] /\ jobs' = jobs)
         /\ ~hbAlive[w] => ~hbAlive'[w]]_vars

\* the flag is set, the task has left its loop, and the job in flight, still
\* owned and processing, carries a heartbeat that has aged
C38_Witness ==
    \E w \in Workers :
       /\ shutdown[w] /\ ~hbAlive[w]
       /\ RunsOwnJob(w)
       /\ jobs[job[w]].heartbeat_at \notin {Null, Some(Now)}

(***************************************************************************)
(* Claims about the age of a cache entry.                                  *)
(***************************************************************************)
\* this step is the metadata write of a store for the url hash
StoreWrites(u) ==
    \E w \in Workers :
       /\ store.proc[w].pc = "st_update"
       /\ store.proc[w].url_hash = Some(u)

\* updated_at of the entry is behind the cutoff before the step and not
\* after it
Refreshed(u) ==
    /\ store.meta[u] # Null /\ store.meta[u].stale
    /\ store'.meta[u] # Null /\ ~store'.meta[u].stale

\* C39: updated_at of a cache entry changes only when store writes content
\* for the url hash: get (touch) and update_domain_count leave it as it is,
\* so an entry that has fallen behind the 7 days passes has_valid_cache
\* again only through a store.
C39_OnlyStoreRefreshes ==
    [][\A u \in UrlHashes :
         /\ Refreshed(u) => StoreWrites(u)
         /\ (~has_valid_cache(store.meta, u) /\ has_valid_cache(store'.meta, u))
            => StoreWrites(u)]_vars

(***************************************************************************)
(* Claims about parse_config.                                              *)
(***************************************************************************)
\* line i of the text is a source line whose first field is an absolute URL
UrlLine(lines, i) ==
    /\ lines[i].kind = "source"
    /\ UrlParses(lines[i].url)

\* the lines that are the first of their URL
FirstOfUrl(lines) ==
    { i \in DOMAIN lines :
        /\ UrlLine(lines, i)
        /\ \A k \in 1..(i - 1) :
              UrlLine(lines, k) => lines[k].url # lines[i].url }

\* the n-th of a set of line numbers
Nth(S, n) == CHOOSE i \in S : Cardinality({ k \in S : k <= i }) = n

\* C40: parse_config returns sources with pairwise distinct URLs in the
\* order of their first occurrence: blank lines, lines starting with # and
\* lines whose first field is not an absolute URL contribute nothing, and a
\* URL on several lines keeps the name and category of its first line.
C40_FirstOccurrences ==
    (parsed # << >> /\ parsed.sources # Null)
    => LET lines == parsed.lines
           sources == parsed.sources[1]
           first == FirstOfUrl(lines)
       IN  /\ Len(sources) = Cardinality(first)
           /\ \A m, n \in DOMAIN sources :
                 m # n => sources[m].url # sources[n].url
           /\ \A n \in DOMAIN sources :
                 LET line == lines[Nth(first, n)]
                 IN  /\ sources[n].url = line.url
                     /\ sources[n].name = IF line.name = Null THEN HostName
                                          ELSE line.name[1]
                     /\ sources[n].category = line.category

\* a parsed text that repeats a URL under another name and category behind
\* a line that contributes nothing
C40_Witness ==
    /\ parsed # << >>
    /\ parsed.sources # Null
    /\ Len(parsed.sources[1]) = 1
    /\ \E i, k \in DOMAIN parsed.lines :
          /\ i < k
          /\ UrlLine(parsed.lines, i) /\ UrlLine(parsed.lines, k)
          /\ parsed.lines[i].url = parsed.lines[k].url
          /\ parsed.lines[i].name # parsed.lines[k].name
          /\ parsed.lines[i].category # parsed.lines[k].category
    /\ \E i \in DOMAIN parsed.lines : ~UrlLine(parsed.lines, i)

====
